---- MODULE Spec2Model ----
(***************************************************************************)
(* A model of AntiBotDetector (src/src/index.ts): the signature catalog,   *)
(* the prefix list, page acquisition and the detection engine.             *)
(*                                                                         *)
(* Strings are sequences of one-character strings, so that splitting,      *)
(* un-escaping, prefix tests, parseInt and regular-expression matching are *)
(* computed character by character, as the code and the JavaScript         *)
(* runtime compute them.                                                   *)
(***************************************************************************)
EXTENDS Integers, Sequences, FiniteSets, TLC

VARIABLES technologies, antiBotTechnologyNames, data, result, history, runs

vars == <<technologies, antiBotTechnologyNames, data, result, history, runs>>

(***************************************************************************)
(* Characters and strings                                                  *)
(***************************************************************************)
BS == "\\"

Digits == {"0", "1", "2", "3", "4", "5", "6", "7", "8", "9"}

UpperToLower ==
    [c \in {"A", "B", "C", "D", "E", "F", "G", "H", "I", "J", "K", "L", "M",
            "N", "O", "P", "Q", "R", "S", "T", "U", "V", "W", "X", "Y", "Z"} |->
        CASE c = "A" -> "a" [] c = "B" -> "b" [] c = "C" -> "c" [] c = "D" -> "d"
          [] c = "E" -> "e" [] c = "F" -> "f" [] c = "G" -> "g" [] c = "H" -> "h"
          [] c = "I" -> "i" [] c = "J" -> "j" [] c = "K" -> "k" [] c = "L" -> "l"
          [] c = "M" -> "m" [] c = "N" -> "n" [] c = "O" -> "o" [] c = "P" -> "p"
          [] c = "Q" -> "q" [] c = "R" -> "r" [] c = "S" -> "s" [] c = "T" -> "t"
          [] c = "U" -> "u" [] c = "V" -> "v" [] c = "W" -> "w" [] c = "X" -> "x"
          [] c = "Y" -> "y" [] c = "Z" -> "z"]

\* One character of String.prototype.toLowerCase (ASCII).
LowerChar(c) == IF c \in DOMAIN UpperToLower THEN UpperToLower[c] ELSE c

\* String.prototype.toLowerCase.
toLowerCase(s) == [i \in 1..Len(s) |-> LowerChar(s[i])]

\* String.prototype.startsWith.
startsWith(s, p) == Len(p) <= Len(s) /\ SubSeq(s, 1, Len(p)) = p

\* String.prototype.slice(n): the string without its first n characters.
sliceFrom(s, n) == SubSeq(s, n + 1, Len(s))

\* Whether the substring of s that starts at index i is p.
OccursAt(s, i, p) == i + Len(p) - 1 <= Len(s) /\ SubSeq(s, i, i + Len(p) - 1) = p

\* String.prototype.replace(/p/g, r) for a literal p: left to right, no overlap.
RECURSIVE ReplaceAllFrom(_, _, _, _)
ReplaceAllFrom(s, i, p, r) ==
    IF i > Len(s) THEN <<>>
    ELSE IF OccursAt(s, i, p) THEN r \o ReplaceAllFrom(s, i + Len(p), p, r)
    ELSE <<s[i]>> \o ReplaceAllFrom(s, i + 1, p, r)

\* String.prototype.split(sep) for a non-empty separator: the list of parts.
RECURSIVE SplitFrom(_, _, _, _)
SplitFrom(s, i, sep, cur) ==
    IF i > Len(s) THEN <<cur>>
    ELSE IF OccursAt(s, i, sep) THEN <<cur>> \o SplitFrom(s, i + Len(sep), sep, <<>>)
    ELSE SplitFrom(s, i + 1, sep, Append(cur, s[i]))

DigitValue(c) ==
    CASE c = "0" -> 0 [] c = "1" -> 1 [] c = "2" -> 2 [] c = "3" -> 3 [] c = "4" -> 4
      [] c = "5" -> 5 [] c = "6" -> 6 [] c = "7" -> 7 [] c = "8" -> 8 [] c = "9" -> 9

\* The length of the run of decimal digits of s that starts at index i.
RECURSIVE DigitRun(_, _)
DigitRun(s, i) == IF i <= Len(s) /\ s[i] \in Digits THEN 1 + DigitRun(s, i + 1) ELSE 0

RECURSIVE DecimalValue(_)
DecimalValue(ds) ==
    IF ds = <<>> THEN 0
    ELSE 10 * DecimalValue(SubSeq(ds, 1, Len(ds) - 1)) + DigitValue(ds[Len(ds)])

RECURSIVE SkipSpaces(_, _)
SkipSpaces(s, i) == IF i <= Len(s) /\ s[i] = " " THEN SkipSpaces(s, i + 1) ELSE i

NaN == [isNaN |-> TRUE, n |-> 0]

Num(n) == [isNaN |-> FALSE, n |-> n]

\* parseInt(s, 10): leading white space, an optional sign, then the longest
\* run of decimal digits; NaN when that run is empty.
parseInt(s) ==
    LET Signed(i) == i <= Len(s) /\ s[i] \in {"+", "-"}
        Value(i, j, k) ==
            IF k = 0 THEN NaN
            ELSE IF Signed(i) /\ s[i] = "-"
            THEN Num(0 - DecimalValue(SubSeq(s, j, j + k - 1)))
            ELSE Num(DecimalValue(SubSeq(s, j, j + k - 1)))
        FromDigits(i, j) == Value(i, j, DigitRun(s, j))
        FromSign(i) == FromDigits(i, IF Signed(i) THEN i + 1 ELSE i)
    IN  FromSign(SkipSpaces(s, 1))

(***************************************************************************)
(* RegExp: the part of the JavaScript regular-expression language the      *)
(* catalog patterns of the model use: literal characters, ".", "\d",       *)
(* identity escapes, "^" and "$", capturing and non-capturing groups, and  *)
(* the quantifiers * + ? (greedy, or lazy with a trailing ?).  Patterns    *)
(* with "|", "[", "{" or a backreference are left out of the pools.        *)
(***************************************************************************)
Node(t, c, body, n) ==
    [t |-> t, c |-> c, body |-> body, n |-> n,
     min |-> 0, max |-> 0, greedy |-> TRUE, glo |-> 0, ghi |-> 0]

PFail == [ok |-> FALSE, nodes |-> <<>>, pos |-> 0, g |-> 0]

POk(nodes, pos, g) == [ok |-> TRUE, nodes |-> nodes, pos |-> pos, g |-> g]

RECURSIVE ParseAlternative(_, _, _)

\* One atom of the pattern p at index i; g capturing groups were opened so far.
ParseAtom(p, i, g) ==
    LET c == p[i]
        capturing == ~(OccursAt(p, i + 1, <<"?", ":">>))
        Group(body) ==
            IF body.ok /\ body.pos <= Len(p) /\ p[body.pos] = ")"
            THEN POk(<<Node(IF capturing THEN "grp" ELSE "ncg", "", body.nodes,
                            IF capturing THEN g + 1 ELSE 0)>>,
                     body.pos + 1, body.g)
            ELSE PFail
    IN
    IF c = "(" THEN
        Group(IF capturing THEN ParseAlternative(p, i + 1, g + 1)
              ELSE ParseAlternative(p, i + 3, g))
    ELSE IF c = BS THEN
        IF i = Len(p) THEN PFail
        ELSE IF p[i + 1] = "d" THEN POk(<<Node("digit", "", <<>>, 0)>>, i + 2, g)
        ELSE POk(<<Node("chr", p[i + 1], <<>>, 0)>>, i + 2, g)
    ELSE IF c \in {"*", "+", "?"} THEN PFail
    ELSE IF c = "^" THEN POk(<<Node("bol", "", <<>>, 0)>>, i + 1, g)
    ELSE IF c = "$" THEN POk(<<Node("eol", "", <<>>, 0)>>, i + 1, g)
    ELSE IF c = "." THEN POk(<<Node("any", "", <<>>, 0)>>, i + 1, g)
    ELSE POk(<<Node("chr", c, <<>>, 0)>>, i + 1, g)

\* An atom and the quantifier that may follow it.
ParseTerm(p, i, g) ==
    LET Quantified(a) ==
            IF ~a.ok THEN PFail
            ELSE IF a.nodes[1].t \in {"bol", "eol"} THEN a
            ELSE IF a.pos <= Len(p) /\ p[a.pos] \in {"*", "+", "?"} THEN
                LET q == p[a.pos]
                    lazy == a.pos + 1 <= Len(p) /\ p[a.pos + 1] = "?"
                    rep == [t |-> "rep", c |-> "", body |-> a.nodes, n |-> 0,
                            min |-> IF q = "+" THEN 1 ELSE 0,
                            max |-> IF q = "?" THEN 1 ELSE -1,
                            greedy |-> ~lazy, glo |-> g + 1, ghi |-> a.g]
                IN  POk(<<rep>>, a.pos + (IF lazy THEN 2 ELSE 1), a.g)
            ELSE a
    IN  Quantified(ParseAtom(p, i, g))

\* The terms from index i up to the end of the pattern or an unconsumed ")".
ParseAlternative(p, i, g) ==
    IF i > Len(p) \/ p[i] = ")" THEN POk(<<>>, i, g)
    ELSE LET Sequence(t, rest) ==
                 IF ~rest.ok THEN PFail
                 ELSE POk(t.nodes \o rest.nodes, rest.pos, rest.g)
             Term(t) ==
                 IF ~t.ok THEN PFail
                 ELSE Sequence(t, ParseAlternative(p, t.pos, t.g))
         IN  Term(ParseTerm(p, i, g))

\* new RegExp(source, 'i'): ok is FALSE where the constructor throws SyntaxError.
RegExpCompile(source) ==
    LET Compiled(r) ==
            IF r.ok /\ r.pos > Len(source)
            THEN [ok |-> TRUE, nodes |-> r.nodes, ngroups |-> r.g]
            ELSE [ok |-> FALSE, nodes |-> <<>>, ngroups |-> 0]
    IN  Compiled(ParseAlternative(source, 1, 0))

Undef == [def |-> FALSE, s |-> <<>>]

Def(s) == [def |-> TRUE, s |-> s]

RECURSIVE MatchNodes(_, _, _, _, _)
RECURSIVE MatchRep(_, _, _, _, _)
RECURSIVE ContinueAll(_, _, _, _)
RECURSIVE RepeatAll(_, _, _, _)

\* Every way the node matches s from index i, in the engine's order of
\* preference; each is the index after the match and the captures.
MatchNode(node, s, i, caps) ==
    LET Captured(rs) ==
            [k \in 1..Len(rs) |->
                [pos |-> rs[k].pos,
                 caps |-> [rs[k].caps EXCEPT ![node.n] = Def(SubSeq(s, i, rs[k].pos - 1))]]]
    IN
    CASE node.t = "chr" ->
            IF i <= Len(s) /\ LowerChar(s[i]) = LowerChar(node.c)
            THEN <<[pos |-> i + 1, caps |-> caps]>> ELSE <<>>
      [] node.t = "any" ->
            IF i <= Len(s) /\ s[i] # "\n"
            THEN <<[pos |-> i + 1, caps |-> caps]>> ELSE <<>>
      [] node.t = "bol" -> IF i = 1 THEN <<[pos |-> i, caps |-> caps]>> ELSE <<>>
      [] node.t = "eol" -> IF i = Len(s) + 1 THEN <<[pos |-> i, caps |-> caps]>> ELSE <<>>
      [] node.t = "digit" ->
            IF i <= Len(s) /\ s[i] \in Digits
            THEN <<[pos |-> i + 1, caps |-> caps]>> ELSE <<>>
      [] node.t = "grp" -> Captured(MatchNodes(node.body, 1, s, i, caps))
      [] node.t = "ncg" -> MatchNodes(node.body, 1, s, i, caps)
      [] node.t = "rep" -> MatchRep(node, s, i, caps, 0)

ContinueAll(rs, nodes, k, s) ==
    IF rs = <<>> THEN <<>>
    ELSE MatchNodes(nodes, k, s, Head(rs).pos, Head(rs).caps)
            \o ContinueAll(Tail(rs), nodes, k, s)

\* The nodes from the k-th on, matched in sequence from index i.
MatchNodes(nodes, k, s, i, caps) ==
    IF k > Len(nodes) THEN <<[pos |-> i, caps |-> caps]>>
    ELSE ContinueAll(MatchNode(nodes[k], s, i, caps), nodes, k + 1, s)

RepeatAll(rs, node, s, count) ==
    IF rs = <<>> THEN <<>>
    ELSE MatchRep(node, s, Head(rs).pos, Head(rs).caps, count)
            \o RepeatAll(Tail(rs), node, s, count)

\* A quantified atom after count iterations: the captures of the groups inside
\* it are reset at each iteration, and an iteration that consumes nothing is
\* rejected once the minimum is met.
MatchRep(node, s, i, caps, count) ==
    LET cleared == [g \in DOMAIN caps |->
                        IF g >= node.glo /\ g <= node.ghi THEN Undef ELSE caps[g]]
        stop == IF count >= node.min THEN <<[pos |-> i, caps |-> caps]>> ELSE <<>>
        Ordered(more) == IF node.greedy THEN more \o stop ELSE stop \o more
        Progress(iter) ==
            Ordered(RepeatAll(SelectSeq(iter, LAMBDA r : r.pos > i \/ count < node.min),
                              node, s, count + 1))
    IN  Progress(IF node.max = -1 \/ count < node.max
                 THEN MatchNode(node.body[1], s, i, cleared) ELSE <<>>)

RECURSIVE ExecFrom(_, _, _)
ExecFrom(re, s, i) ==
    IF i > Len(s) + 1 THEN [matched |-> FALSE, groups |-> <<>>]
    ELSE LET Found(rs) ==
                 IF rs # <<>>
                 THEN [matched |-> TRUE,
                       groups |-> <<Def(SubSeq(s, i, Head(rs).pos - 1))>> \o Head(rs).caps]
                 ELSE ExecFrom(re, s, i + 1)
         IN  Found(MatchNodes(re.nodes, 1, s, i, [g \in 1..re.ngroups |-> Undef]))

\* regex.exec(value) of a regex without the g and y flags: the leftmost match;
\* groups[1] is match[0], groups[n + 1] is match[n].
RegExpExec(re, s) == ExecFrom(re, s, 1)

(***************************************************************************)
(* parsePattern and matchPatterns                                          *)
(***************************************************************************)
S_version == <<"v", "e", "r", "s", "i", "o", "n", ":">>

S_confidence == <<"c", "o", "n", "f", "i", "d", "e", "n", "c", "e", ":">>

\* A bare semicolon as the separator of the attributes.
SeparatorBareSemicolon == <<";">>

\* The string the pattern string is split on: a backslash and a semicolon.
AttributeSeparator == <<BS, ";">>

\* The attribute loop of parsePattern from part i on; acc is <<version, confidence>>.
RECURSIVE ParseAttributes(_, _, _)
ParseAttributes(parts, i, acc) ==
    IF i > Len(parts) THEN acc
    ELSE LET attr == parts[i] IN
         IF startsWith(attr, S_version)
         THEN ParseAttributes(parts, i + 1, [acc EXCEPT !.version = Def(sliceFrom(attr, Len(S_version)))])
         ELSE IF startsWith(attr, S_confidence)
         THEN ParseAttributes(parts, i + 1,
                              [acc EXCEPT !.confidence = parseInt(sliceFrom(attr, Len(S_confidence)))])
         ELSE ParseAttributes(parts, i + 1, acc)

\* parsePattern: the compiled regex, the version template and the confidence;
\* threw is TRUE where new RegExp throws.
parsePattern(patternString) ==
    LET unescapedPatternString == ReplaceAllFrom(patternString, 1, <<BS, BS>>, <<BS>>)
        TechnologyPattern(regex, attrs) ==
            [threw |-> ~regex.ok, regex |-> regex,
             version |-> attrs.version, confidence |-> attrs.confidence]
        FromParts(parts) ==
            TechnologyPattern(RegExpCompile(parts[1]),
                              ParseAttributes(parts, 2,
                                              [version |-> Undef, confidence |-> Num(100)]))
    IN  FromParts(SplitFrom(unescapedPatternString, 1, AttributeSeparator, <<>>))

NoConfidence == [def |-> FALSE, isNaN |-> FALSE, n |-> 0]

Confidence(c) == [def |-> TRUE, isNaN |-> c.isNaN, n |-> c.n]

\* { matched: false }
NoMatch == [threw |-> FALSE, matched |-> FALSE, version |-> Undef, confidence |-> NoConfidence]

\* The exception of parsePattern propagating out of matchPatterns.
Threw == [threw |-> TRUE, matched |-> FALSE, version |-> Undef, confidence |-> NoConfidence]

\* The group text with the groups counted from match[0].
GroupTextFromZero(groups, n) ==
    IF n >= 1 /\ n <= Len(groups) /\ groups[n].def THEN groups[n].s ELSE <<>>

\* match[n] || '': the text of group n, empty when it is undefined or absent.
GroupText(groups, n) ==
    IF n + 1 <= Len(groups) /\ groups[n + 1].def THEN groups[n + 1].s ELSE <<>>

\* versionPattern.replace(/\\(\d+)/g, ...): each backslash followed by digits is
\* replaced by the text of the group the digits name.
RECURSIVE SubstituteVersion(_, _, _)
SubstituteVersion(t, i, groups) ==
    IF i > Len(t) THEN <<>>
    ELSE IF t[i] = BS /\ DigitRun(t, i + 1) > 0
    THEN LET k == DigitRun(t, i + 1) IN
         GroupText(groups, DecimalValue(SubSeq(t, i + 1, i + k)))
            \o SubstituteVersion(t, i + k + 1, groups)
    ELSE <<t[i]>> \o SubstituteVersion(t, i + 1, groups)

\* matchPatterns: the first pattern string of the list that matches the value.
RECURSIVE matchPatternsFrom(_, _, _)
matchPatternsFrom(patternStrings, i, value) ==
    IF i > Len(patternStrings) THEN NoMatch
    ELSE LET Executed(p, match) ==
                 IF match.matched
                 THEN [threw |-> FALSE, matched |-> TRUE,
                       version |-> IF p.version.def /\ p.version.s # <<>>
                                   THEN Def(SubstituteVersion(p.version.s, 1, match.groups))
                                   ELSE Undef,
                       confidence |-> Confidence(p.confidence)]
                 ELSE matchPatternsFrom(patternStrings, i + 1, value)
             Parsed(p) == IF p.threw THEN Threw ELSE Executed(p, RegExpExec(p.regex, value))
         IN  Parsed(parsePattern(patternStrings[i]))

matchPatterns(patternStrings, value) == matchPatternsFrom(patternStrings, 1, value)

(***************************************************************************)
(* The catalog: Technology records and getTechnologyPatterns               *)
(***************************************************************************)
\* A field of a Technology record: absent, a string, an array of strings, or
\* an object whose entries <<key, value>> are in Object.keys order, each value
\* a string or an array of strings.
Absent == [kind |-> "none", str |-> <<>>, arr |-> <<>>, obj |-> <<>>]

Str(s) == [kind |-> "str", str |-> s, arr |-> <<>>, obj |-> <<>>]

Arr(a) == [kind |-> "arr", str |-> <<>>, arr |-> a, obj |-> <<>>]

Obj(o) == [kind |-> "obj", str |-> <<>>, arr |-> <<>>, obj |-> o]

\* if (source): undefined and the empty string are falsy.
Truthy(source) == source.kind # "none" /\ ~(source.kind = "str" /\ source.str = <<>>)

\* Array.isArray(v) ? v : [v]
PatternArray(v) == IF v.kind = "arr" THEN v.arr ELSE <<v.str>>

RECURSIVE Flatten(_)
Flatten(ss) == IF ss = <<>> THEN <<>> ELSE Head(ss) \o Flatten(Tail(ss))

\* addPatterns(type, source): the pattern descriptors of one field.
addPatterns(type, source) ==
    IF ~Truthy(source) THEN <<>>
    ELSE IF source.kind \in {"str", "arr"}
    THEN LET patternArray == PatternArray(source) IN
         [i \in 1..Len(patternArray) |->
            [type |-> type, key |-> Undef, pattern |-> patternArray[i]]]
    ELSE Flatten([k \in 1..Len(source.obj) |->
            LET patternArray == PatternArray(source.obj[k][2]) IN
            [i \in 1..Len(patternArray) |->
                [type |-> type, key |-> Def(source.obj[k][1]), pattern |-> patternArray[i]]]])

\* The descriptors with the cookies collected before the headers.
getTechnologyPatternsCookiesFirst(technology) ==
    addPatterns("cookies", technology.cookies)
        \o addPatterns("headers", technology.headers)
        \o addPatterns("html", technology.html)
        \o addPatterns("scripts", technology.scripts)
        \o addPatterns("js", technology.js)
        \o addPatterns("dom", technology.dom)
        \o addPatterns("meta", technology.meta)
        \o addPatterns("url", technology.url)

\* getTechnologyPatterns: the descriptors of a technology, type by type.
getTechnologyPatterns(technology) ==
    addPatterns("headers", technology.headers)
        \o addPatterns("cookies", technology.cookies)
        \o addPatterns("html", technology.html)
        \o addPatterns("scripts", technology.scripts)
        \o addPatterns("js", technology.js)
        \o addPatterns("dom", technology.dom)
        \o addPatterns("meta", technology.meta)
        \o addPatterns("url", technology.url)

(***************************************************************************)
(* The page: what the browser shows to interceptRequests                   *)
(***************************************************************************)
\* Values of JavaScript globals as page.evaluate returns them.
JStr(s) == [t |-> "str", s |-> s, b |-> FALSE, props |-> <<>>]

JBool(b) == [t |-> "bool", s |-> <<>>, b |-> b, props |-> <<>>]

JObj(props) == [t |-> "obj", s |-> <<>>, b |-> FALSE, props |-> props]

JUndefined == [def |-> FALSE, v |-> JBool(FALSE)]

JDefined(v) == [def |-> TRUE, v |-> v]

\* String(value)
String(v) ==
    CASE v.t = "str" -> v.s
      [] v.t = "bool" -> IF v.b THEN <<"t", "r", "u", "e">> ELSE <<"f", "a", "l", "s", "e">>
      [] v.t = "obj" -> <<"[", "o", "b", "j", "e", "c", "t", " ", "O", "b", "j", "e", "c", "t", "]">>

\* Whether a value is truthy, as the left operand of && sees it.
TruthyValue(x) ==
    x.def /\ ~(x.v.t = "str" /\ x.v.s = <<>>) /\ ~(x.v.t = "bool" /\ ~x.v.b)

\* map[key] of an object given as a list of <<key, value>>: the last entry
\* written under the key, undefined when there is none.
RECURSIVE LookupFrom(_, _, _, _)
LookupFrom(map, i, key, none) ==
    IF i = 0 THEN none
    ELSE IF map[i][1] = key THEN map[i][2]
    ELSE LookupFrom(map, i - 1, key, none)

\* A string-valued entry, wrapped: Undef when the key is absent.
LookupString(map, key) ==
    LookupFrom([i \in 1..Len(map) |-> <<map[i][1], Def(map[i][2])>>], Len(map), key, Undef)

\* obj[prop] for a JavaScript value: only objects have the properties listed.
GetProp(v, prop) ==
    IF v.t = "obj"
    THEN LookupFrom([i \in 1..Len(v.props) |-> <<v.props[i][1], JDefined(v.props[i][2])>>],
                    Len(v.props), prop, JUndefined)
    ELSE JUndefined

\* expression.split('.').reduce((obj, prop) => obj && obj[prop], window)
RECURSIVE ReducePath(_, _, _)
ReducePath(path, i, obj) ==
    IF i > Len(path) THEN obj
    ELSE ReducePath(path, i + 1, IF TruthyValue(obj) THEN GetProp(obj.v, path[i]) ELSE obj)

\* Array.from(new Set(list)): the first occurrence of each element, in order.
RECURSIVE Unique(_)
Unique(list) ==
    IF list = <<>> THEN <<>>
    ELSE LET front == Unique(SubSeq(list, 1, Len(list) - 1))
             last == list[Len(list)]
         IN  IF \E i \in 1..Len(front) : front[i] = last THEN front ELSE Append(front, last)

\* collectJavaScriptVariables: the keys of every js field of the catalog,
\* evaluated on the page's window; undefined values are left out.
collectJavaScriptVariables(page, techs) ==
    LET variableExpressions ==
            Flatten([i \in 1..Len(techs) |->
                LET js == techs[i].tech.js IN
                IF js.kind = "obj" THEN [k \in 1..Len(js.obj) |-> js.obj[k][1]] ELSE <<>>])
        uniqueVariableExpressions == Unique(variableExpressions)
        value(expression) ==
            ReducePath(SplitFrom(expression, 1, <<".">>, <<>>), 1, JDefined(JObj(page.window)))
    IN  Flatten([i \in 1..Len(uniqueVariableExpressions) |->
            IF value(uniqueVariableExpressions[i]).def
            THEN <<<<uniqueVariableExpressions[i], value(uniqueVariableExpressions[i]).v>>>>
            ELSE <<>>])

\* collectMetaTags: name (or, without it, property) lower-cased -> content, for
\* the meta elements that have both non-empty; a later element overwrites.
collectMetaTags(page) ==
    Flatten([i \in 1..Len(page.metas) |->
        LET meta == page.metas[i]
            name == IF meta.name.def THEN meta.name ELSE meta.property
        IN  IF name.def /\ name.s # <<>> /\ meta.content.def /\ meta.content.s # <<>>
            THEN <<<<toLowerCase(name.s), meta.content.s>>>>
            ELSE <<>>])

\* collectDOMElements: the dom patterns of the catalog, each once, that
\* document.querySelector finds on the page.
collectDOMElements(page, techs) ==
    LET selectors ==
            Flatten([i \in 1..Len(techs) |->
                LET dom == techs[i].tech.dom IN
                IF Truthy(dom) /\ dom.kind \in {"str", "arr"} THEN PatternArray(dom) ELSE <<>>])
        uniqueSelectors == Unique(selectors)
    IN  SelectSeq(uniqueSelectors, LAMBDA selector : selector \in page.selectors)

NoMetadata == [url |-> Undef, status_code |-> 0, headers |-> <<>>, cookies |-> <<>>]

\* No PageData: no run is between its acquisition and its detection.
NoData ==
    [acquired |-> FALSE, requestData |-> <<>>, responseData |-> <<>>, cookies |-> <<>>,
     content |-> <<>>, url |-> <<>>, jsVariables |-> <<>>, metaTags |-> <<>>,
     domMatches |-> <<>>, metadata |-> NoMetadata]

\* interceptRequests: the PageData of a load of the page for run(url).
interceptRequests(url, techs, page) ==
    [acquired |-> TRUE,
     requestData |-> page.requests,
     responseData |-> page.responses,
     cookies |-> page.cookies,
     content |-> page.content,
     url |-> url,
     jsVariables |-> collectJavaScriptVariables(page, techs),
     metaTags |-> collectMetaTags(page),
     domMatches |-> collectDOMElements(page, techs),
     metadata |-> [url |-> Def(page.finalUrl), status_code |-> page.status,
                   headers |-> page.headers, cookies |-> page.cookies]]

(***************************************************************************)
(* detectTechnologies                                                      *)
(***************************************************************************)
\* patternObj.key && ...: the key is defined and not the empty string.
KeyTruthy(patternObj) == patternObj.key.def /\ patternObj.key.s # <<>>

\* The two loops of case 'headers' over requests, then responses: items from
\* the i-th on; matchResult is the result of the last header tried.
RECURSIVE HeadersLoop(_, _, _, _)
HeadersLoop(items, i, patternObj, matchResult) ==
    IF i > Len(items) THEN matchResult
    ELSE LET header == LookupString(items[i].headers, toLowerCase(patternObj.key.s))
             Tried(m) ==
                 IF m.threw \/ m.matched THEN m
                 ELSE HeadersLoop(items, i + 1, patternObj, m)
         IN  IF KeyTruthy(patternObj) /\ header.def /\ header.s # <<>>
             THEN Tried(matchPatterns(<<patternObj.pattern>>, header.s))
             ELSE HeadersLoop(items, i + 1, patternObj, matchResult)

\* case 'cookies': every cookie named exactly as the key, in order.
RECURSIVE CookiesLoop(_, _, _, _)
CookiesLoop(cookies, i, patternObj, matchResult) ==
    IF i > Len(cookies) THEN matchResult
    ELSE LET Tried(m) ==
                 IF m.threw \/ m.matched THEN m
                 ELSE CookiesLoop(cookies, i + 1, patternObj, m)
         IN  IF KeyTruthy(patternObj) /\ cookies[i].name = patternObj.key.s
             THEN Tried(matchPatterns(<<patternObj.pattern>>, cookies[i].value))
             ELSE CookiesLoop(cookies, i + 1, patternObj, matchResult)

\* A scripts case that does not test the resource type.
RECURSIVE ScriptsLoopAnyType(_, _, _, _)
ScriptsLoopAnyType(requests, i, patternObj, matchResult) ==
    IF i > Len(requests) THEN matchResult
    ELSE LET Tried(m) ==
                 IF m.threw \/ m.matched THEN m
                 ELSE ScriptsLoopAnyType(requests, i + 1, patternObj, m)
         IN  Tried(matchPatterns(<<patternObj.pattern>>, requests[i].url))

\* case 'scripts': the URL of every request of resource type script, in order.
RECURSIVE ScriptsLoop(_, _, _, _)
ScriptsLoop(requests, i, patternObj, matchResult) ==
    IF i > Len(requests) THEN matchResult
    ELSE LET Tried(m) ==
                 IF m.threw \/ m.matched THEN m
                 ELSE ScriptsLoop(requests, i + 1, patternObj, m)
         IN  IF requests[i].resourceType = "script"
             THEN Tried(matchPatterns(<<patternObj.pattern>>, requests[i].url))
             ELSE ScriptsLoop(requests, i + 1, patternObj, matchResult)

\* A dom case that reads the attributes of the pattern string.
DomMatchWithAttributes(patternObj, d) ==
    LET Parsed(p) ==
            [threw |-> FALSE, matched |-> TRUE,
             version |-> p.version, confidence |-> Confidence(p.confidence)]
    IN  IF \E i \in 1..Len(d.domMatches) : d.domMatches[i] = patternObj.pattern
        THEN Parsed(parsePattern(patternObj.pattern))
        ELSE NoMatch

\* case 'dom': { matched: true, confidence: 100 } when the pattern is listed.
DomMatch(patternObj, d) ==
    IF \E i \in 1..Len(d.domMatches) : d.domMatches[i] = patternObj.pattern
    THEN [threw |-> FALSE, matched |-> TRUE, version |-> Undef,
          confidence |-> Confidence(Num(100))]
    ELSE NoMatch

\* The switch with the responses' headers tried before the requests'.
MatchDescriptorResponsesFirst(patternObj, d) ==
    CASE patternObj.type = "headers" ->
            LET InResponses(m) ==
                    IF m.threw \/ m.matched THEN m
                    ELSE HeadersLoop(d.requestData, 1, patternObj, m)
            IN  InResponses(HeadersLoop(d.responseData, 1, patternObj, NoMatch))
      [] patternObj.type = "cookies" -> CookiesLoop(d.cookies, 1, patternObj, NoMatch)
      [] patternObj.type = "html" -> matchPatterns(<<patternObj.pattern>>, d.content)
      [] patternObj.type = "scripts" -> ScriptsLoop(d.requestData, 1, patternObj, NoMatch)
      [] patternObj.type = "js" ->
            LET v == LookupFrom([i \in 1..Len(d.jsVariables) |->
                                    <<d.jsVariables[i][1], JDefined(d.jsVariables[i][2])>>],
                                Len(d.jsVariables), patternObj.key.s, JUndefined)
            IN  IF KeyTruthy(patternObj) /\ v.def
                THEN matchPatterns(<<patternObj.pattern>>, String(v.v))
                ELSE NoMatch
      [] patternObj.type = "meta" ->
            LET content == LookupString(d.metaTags, toLowerCase(patternObj.key.s)) IN
            IF KeyTruthy(patternObj) /\ content.def /\ content.s # <<>>
            THEN matchPatterns(<<patternObj.pattern>>, content.s)
            ELSE NoMatch
      [] patternObj.type = "dom" -> DomMatch(patternObj, d)
      [] patternObj.type = "url" -> matchPatterns(<<patternObj.pattern>>, d.url)
      [] OTHER -> NoMatch

\* The switch of detectTechnologies: the match result of one descriptor.
MatchDescriptor(patternObj, d) ==
    CASE patternObj.type = "headers" ->
            LET InRequests(m) ==
                    IF m.threw \/ m.matched THEN m
                    ELSE HeadersLoop(d.responseData, 1, patternObj, m)
            IN  InRequests(HeadersLoop(d.requestData, 1, patternObj, NoMatch))
      [] patternObj.type = "cookies" -> CookiesLoop(d.cookies, 1, patternObj, NoMatch)
      [] patternObj.type = "html" -> matchPatterns(<<patternObj.pattern>>, d.content)
      [] patternObj.type = "scripts" -> ScriptsLoop(d.requestData, 1, patternObj, NoMatch)
      [] patternObj.type = "js" ->
            LET v == LookupFrom([i \in 1..Len(d.jsVariables) |->
                                    <<d.jsVariables[i][1], JDefined(d.jsVariables[i][2])>>],
                                Len(d.jsVariables), patternObj.key.s, JUndefined)
            IN  IF KeyTruthy(patternObj) /\ v.def
                THEN matchPatterns(<<patternObj.pattern>>, String(v.v))
                ELSE NoMatch
      [] patternObj.type = "meta" ->
            LET content == LookupString(d.metaTags, toLowerCase(patternObj.key.s)) IN
            IF KeyTruthy(patternObj) /\ content.def /\ content.s # <<>>
            THEN matchPatterns(<<patternObj.pattern>>, content.s)
            ELSE NoMatch
      [] patternObj.type = "dom" -> DomMatch(patternObj, d)
      [] patternObj.type = "url" -> matchPatterns(<<patternObj.pattern>>, d.url)
      [] OTHER -> NoMatch

\* A Detection that always carries the default confidence.
DetectionDefaultConfidence(techName, patternObj, matchResult) ==
    [name |-> techName, pattern |-> patternObj, version |-> matchResult.version,
     confidence |-> Num(100)]

\* The Detection built from a descriptor and its match result.
Detection(techName, patternObj, matchResult) ==
    [name |-> techName, pattern |-> patternObj, version |-> matchResult.version,
     confidence |-> IF matchResult.confidence.def
                    THEN [isNaN |-> matchResult.confidence.isNaN, n |-> matchResult.confidence.n]
                    ELSE Num(100)]

\* The inner loop without the break: every matching descriptor gives a
\* Detection.
RECURSIVE DetectFromNoBreak(_, _, _, _)
DetectFromNoBreak(techName, patterns, i, d) ==
    IF i > Len(patterns) THEN [kind |-> "none", detections |-> <<>>]
    ELSE LET Collected(matchResult, rest) ==
                 IF matchResult.threw \/ rest.kind = "threw"
                 THEN [kind |-> "threw", detections |-> <<>>]
                 ELSE IF matchResult.matched
                 THEN [kind |-> "detected",
                       detections |-> <<Detection(techName, patterns[i], matchResult)>>
                                          \o rest.detections]
                 ELSE rest
         IN  Collected(MatchDescriptor(patterns[i], d),
                       DetectFromNoBreak(techName, patterns, i + 1, d))

\* The inner loop without the test of matchResult.matched.
DetectFromUnchecked(techName, patterns, i, d) ==
    IF i > Len(patterns) THEN [kind |-> "none", detections |-> <<>>]
    ELSE LET Evaluated(matchResult) ==
                 IF matchResult.threw THEN [kind |-> "threw", detections |-> <<>>]
                 ELSE [kind |-> "detected",
                       detections |-> <<Detection(techName, patterns[i], matchResult)>>]
         IN  Evaluated(MatchDescriptor(patterns[i], d))

\* The inner loop: the descriptors from the i-th on; the first that matches
\* gives the Detection and ends the loop.
RECURSIVE DetectFrom(_, _, _, _)
DetectFrom(techName, patterns, i, d) ==
    IF i > Len(patterns) THEN [kind |-> "none", detections |-> <<>>]
    ELSE LET Evaluated(matchResult) ==
                 IF matchResult.threw THEN [kind |-> "threw", detections |-> <<>>]
                 ELSE IF matchResult.matched
                 THEN [kind |-> "detected",
                       detections |-> <<Detection(techName, patterns[i], matchResult)>>]
                 ELSE DetectFrom(techName, patterns, i + 1, d)
         IN  Evaluated(MatchDescriptor(patterns[i], d))

\* isAntiBot without the lower-casing of the names of the list.
IsAntiBotCaseSensitive(names, techName) ==
    LET lowerCaseTechName == toLowerCase(techName) IN
    \E i \in 1..Len(names) : startsWith(lowerCaseTechName, names[i])

\* isAntiBot: some name of the list, lower-cased, starts the lower-cased name.
IsAntiBot(names, techName) ==
    LET lowerCaseTechName == toLowerCase(techName) IN
    \E i \in 1..Len(names) : startsWith(lowerCaseTechName, toLowerCase(names[i]))

\* The outer loop over Object.entries(technologies) from the i-th entry on;
\* acc holds the two lists built so far.
RECURSIVE DetectAll(_, _, _, _, _)
DetectAll(techs, i, d, names, acc) ==
    IF i > Len(techs) THEN acc
    ELSE LET Classified(r) ==
                 IF r.kind = "threw" THEN [acc EXCEPT !.status = "threw"]
                 ELSE IF r.kind = "none" THEN DetectAll(techs, i + 1, d, names, acc)
                 ELSE IF IsAntiBot(names, techs[i].name)
                 THEN DetectAll(techs, i + 1, d, names,
                                [acc EXCEPT !.antiBot = @ \o r.detections])
                 ELSE DetectAll(techs, i + 1, d, names,
                                [acc EXCEPT !.other = @ \o r.detections])
         IN  Classified(DetectFrom(techs[i].name, getTechnologyPatterns(techs[i].tech), 1, d))

\* A result that carries the metadata only when something was detected.
detectTechnologiesMetadataOnHit(techs, d, names) ==
    LET AntiBotResults(r) ==
            IF r.status = "threw"
            THEN [status |-> "threw", antiBot |-> <<>>, other |-> <<>>,
                  metadata |-> NoMetadata]
            ELSE [status |-> "returned", antiBot |-> r.antiBot, other |-> r.other,
                  metadata |-> IF r.antiBot = <<>> /\ r.other = <<>>
                               THEN NoMetadata ELSE d.metadata]
    IN  AntiBotResults(DetectAll(techs, 1, d, names,
                                 [status |-> "returned", antiBot |-> <<>>, other |-> <<>>]))

\* detectTechnologies: the AntiBotResults, or status "threw" and no result
\* where an exception leaves the function.
detectTechnologies(techs, d, names) ==
    LET AntiBotResults(r) ==
            IF r.status = "threw"
            THEN [status |-> "threw", antiBot |-> <<>>, other |-> <<>>,
                  metadata |-> NoMetadata]
            ELSE [status |-> "returned", antiBot |-> r.antiBot, other |-> r.other,
                  metadata |-> d.metadata]
    IN  AntiBotResults(DetectAll(techs, 1, d, names,
                                 [status |-> "returned", antiBot |-> <<>>, other |-> <<>>]))

(***************************************************************************)
(* The detector's configuration and the inputs of the model                *)
(***************************************************************************)
\* The initial value of antiBotTechnologyNames.
DefaultAntiBotTechnologyNames ==
    << <<"a", "k", "a", "m", "a", "i">>, <<"c", "l", "o", "u", "d", "f", "l", "a", "r", "e">>, <<"r", "e", "c", "a", "p", "t", "c", "h", "a">>, <<"p", "e", "r", "i", "m", "e", "t", "e", "r", "x">>,
       <<"f", "i", "n", "g", "e", "r", "p", "r", "i", "n", "t", "j", "s">>, <<"d", "a", "t", "a", "d", "o", "m", "e">>, <<"i", "m", "p", "e", "r", "v", "a">>, <<"k", "a", "s", "a", "d", "a">>,
       <<"h", "u", "m", "a", "n", " ", "s", "e", "c", "u", "r", "i", "t", "y">>, <<"s", "h", "a", "p", "e">>, <<"r", "a", "d", "w", "a", "r", "e">>, <<"g", "e", "e", "t", "e", "s", "t">> >>

\* How many names the setter may append in a behaviour of the model.
MaxAdded == 2

\* How many technologies a catalog of the model holds at most.
MaxTechs == 2

\* How many attribute segments a generated pattern string carries at most.
MaxAttrs == 2

\* The arrays assigned to antiBotTechnologyName.
SetterPool == { << <<"N", "G", "I">> >>, << <<"i", "n", "x">>, <<"F", "O", "O">> >> }

Technology(headers, cookies, html, scripts, js, dom, meta, url) ==
    [headers |-> headers, cookies |-> cookies, html |-> html, scripts |-> scripts,
     js |-> js, dom |-> dom, meta |-> meta, url |-> url]

Entry(name, tech) == [name |-> name, tech |-> tech]

T_Datadome ==
    Entry(<<"D", "a", "t", "a", "d", "o", "m", "e">>,
          Technology(Obj(<< <<<<"X", "-", "D", "a", "t", "a", "D", "o", "m", "e", "-", "C", "I", "D">>, Str(<<>>)>>,
                            <<<<"S", "e", "r", "v", "e", "r">>, Str(<<"^", "d", "a", "t", "a", "d", "o", "m", "e">>)>> >>),
                     Obj(<< <<<<"d", "a", "t", "a", "d", "o", "m", "e">>, Str(<<>>)>> >>),
                     Absent, Absent, Absent, Absent, Absent, Absent))

T_PerimeterX ==
    Entry(<<"P", "e", "r", "i", "m", "e", "t", "e", "r", "X">>,
          Technology(Absent,
                     Obj(<< <<<<"_", "p", "x", "3">>, Str(<<"(", "\\", "d", ")", "\\", ";", "v", "e", "r", "s", "i", "o", "n", ":", "\\", "1">>)>> >>),
                     Absent, Absent,
                     Obj(<< <<<<"_", "p", "x", "A", "p", "p", "I", "d">>, Str(<<"P", "X">>)>> >>),
                     Arr(<< <<"#", "p", "x", "-", "c", "a", "p", "t", "c", "h", "a", "\\", ";", "v", "e", "r", "s", "i", "o", "n", ":", "r", "o", "o", "t">>, <<"#", "p", "x", "-", "c", "a", "p", "t", "c", "h", "a">> >>),
                     Absent, Absent))

T_reCAPTCHA ==
    Entry(<<"r", "e", "C", "A", "P", "T", "C", "H", "A">>,
          Technology(Absent, Absent, Absent,
                     Str(<<"r", "e", "c", "a", "p", "t", "c", "h", "a", "/", "a", "p", "i", "\\", ".", "j", "s">>),
                     Obj(<< <<<<"g", "r", "e", "c", "a", "p", "t", "c", "h", "a", ".", "v">>, Str(<<"(", "\\", "d", "+", ")", "\\", ";", "v", "e", "r", "s", "i", "o", "n", ":", "\\", "1", "\\", ";", "c", "o", "n", "f", "i", "d", "e", "n", "c", "e", ":", "5", "0">>)>> >>),
                     Absent, Absent, Absent))

T_Broken ==
    Entry(<<"B", "r", "o", "k", "e", "n">>,
          Technology(Absent, Absent, Str(<<"<", "h", "1", ">">>), Absent, Absent, Absent,
                     Obj(<< <<<<"G", "e", "n", "e", "r", "a", "t", "o", "r">>, Str(<<"W", "o", "r", "d", "P", "r", "e", "s", "s", "(">>)>> >>),
                     Str(<<"\\", ".", "i", "o", "/">>)))

T_Nginx ==
    Entry(<<"N", "g", "i", "n", "x">>,
          Technology(Obj(<< <<<<"S", "e", "r", "v", "e", "r">>, Str(<<"n", "g", "i", "n", "x", "/", "(", "\\", "d", "+", "\\", ".", "\\", "d", "+", ")", "\\", ";", "v", "e", "r", "s", "i", "o", "n", ":", "\\", "1">>)>> >>),
                     Absent,
                     Arr(<< <<"<", "h", "1", ">", "n", "g", "i", "n", "x", "\\", ";", "c", "p", "e", ":", "x", "\\", ";", "c", "o", "n", "f", "i", "d", "e", "n", "c", "e", ":", "3", "0">>, <<"n", "g", "i", "n", "x">> >>),
                     Absent, Absent, Absent,
                     Obj(<< <<<<"g", "e", "n", "e", "r", "a", "t", "o", "r">>, Arr(<< <<"a", "p", "a", "c", "h", "e">>, <<"n", "g", "i", "n", "x", "\\", ";", "v", "e", "r", "s", "i", "o", "n", ":", "m">> >>)>> >>),
                     Str(<<"^", "h", "t", "t", "p", "s", "\\", ";", "c", "o", "n", "f", "i", "d", "e", "n", "c", "e", ":", "1", "0">>)))

TechPool == {T_Datadome, T_PerimeterX, T_reCAPTCHA, T_Broken, T_Nginx}

\* The catalogs the loader can deliver from the pool: technology names are the
\* keys of one object, hence distinct, in Object.entries order.
CuratedCatalogs ==
    {c \in UNION {[1..n -> TechPool] : n \in 1..MaxTechs} :
        \A i, j \in DOMAIN c : i # j => c[i].name # c[j].name}

\* Generated pattern strings: a regex source and a list of attributes, written
\* as the catalog format writes them (each attribute after a backslash and a
\* semicolon).
RegexPool == { <<"c", "l", "o", "u", "d", "f", "l", "a", "r", "e">>, <<"(", "z", ")", "?", "n", "g", "i", "n", "x", "/", "(", "\\", "d", "+", ")">> }

\* A version template is a list of tokens: a literal character, or the number
\* of a capture group.
Lit(c) == [group |-> 0, c |-> c]

Grp(n) == [group |-> n, c |-> ""]

VersionAttr(tokens) ==
    [k |-> "version", tokens |-> tokens, n |-> 0, text |-> <<>>, integer |-> FALSE]

\* confidence:<text>; integer says that the text is a decimal integer, n.
ConfidenceAttr(n, text, integer) ==
    [k |-> "confidence", tokens |-> <<>>, n |-> n, text |-> text, integer |-> integer]

\* A segment that is neither version:... nor confidence:...
OtherAttr(text) ==
    [k |-> "other", tokens |-> <<>>, n |-> 0, text |-> text, integer |-> FALSE]

AttrPool ==
    { VersionAttr(<<Lit("v"), Grp(2), Grp(1)>>),
      ConfidenceAttr(90, <<"9", "0">>, TRUE),
      ConfidenceAttr(5, <<"5">>, TRUE),
      ConfidenceAttr(0, <<"h", "i", "g", "h">>, FALSE) }

RenderToken(tok) == IF tok.group = 0 THEN <<tok.c>> ELSE <<BS>> \o
    (CASE tok.group = 1 -> <<"1">> [] tok.group = 2 -> <<"2">> [] tok.group = 3 -> <<"3">>)

RenderAttr(a) ==
    CASE a.k = "version" ->
            S_version \o Flatten([i \in 1..Len(a.tokens) |-> RenderToken(a.tokens[i])])
      [] a.k = "confidence" -> S_confidence \o a.text
      [] OTHER -> a.text

RenderPattern(re, attrs) ==
    re \o Flatten([i \in 1..Len(attrs) |-> <<BS, ";">> \o RenderAttr(attrs[i])])

AttrLists == UNION {[1..n -> AttrPool] : n \in 0..MaxAttrs}

Pat(re, attrs) == [re |-> re, attrs |-> attrs]

GeneratedPatterns == {Pat(re, attrs) : re \in RegexPool, attrs \in AttrLists}

\* The pattern strings of the technologies above, as regex source and attributes.
CuratedPatterns ==
    { Pat(<<>>, <<>>),
      Pat(<<"^", "d", "a", "t", "a", "d", "o", "m", "e">>, <<>>),
      Pat(<<"(", "\\", "d", ")">>, <<VersionAttr(<<Grp(1)>>)>>),
      Pat(<<"P", "X">>, <<>>),
      Pat(<<"#", "p", "x", "-", "c", "a", "p", "t", "c", "h", "a">>, <<VersionAttr(<<Lit("r"), Lit("o"), Lit("o"), Lit("t")>>)>>),
      Pat(<<"#", "p", "x", "-", "c", "a", "p", "t", "c", "h", "a">>, <<>>),
      Pat(<<"r", "e", "c", "a", "p", "t", "c", "h", "a", "/", "a", "p", "i", "\\", ".", "j", "s">>, <<>>),
      Pat(<<"(", "\\", "d", "+", ")">>, <<VersionAttr(<<Grp(1)>>), ConfidenceAttr(50, <<"5", "0">>, TRUE)>>),
      Pat(<<"<", "h", "1", ">">>, <<>>),
      Pat(<<"W", "o", "r", "d", "P", "r", "e", "s", "s", "(">>, <<>>),
      Pat(<<"\\", ".", "i", "o", "/">>, <<>>),
      Pat(<<"n", "g", "i", "n", "x", "/", "(", "\\", "d", "+", "\\", ".", "\\", "d", "+", ")">>, <<VersionAttr(<<Grp(1)>>)>>),
      Pat(<<"<", "h", "1", ">", "n", "g", "i", "n", "x">>, <<OtherAttr(<<"c", "p", "e", ":", "x">>), ConfidenceAttr(30, <<"3", "0">>, TRUE)>>),
      Pat(<<"n", "g", "i", "n", "x">>, <<>>),
      Pat(<<"a", "p", "a", "c", "h", "e">>, <<>>),
      Pat(<<"n", "g", "i", "n", "x">>, <<VersionAttr(<<Lit("m")>>)>>),
      Pat(<<"^", "h", "t", "t", "p", "s">>, <<ConfidenceAttr(10, <<"1", "0">>, TRUE)>>),
      Pat(<<"c", "l", "o", "u", "d", "f", "l", "a", "r", "e", ";", "c", "o", "n", "f", "i", "d", "e", "n", "c", "e", ":", "9", "0">>, <<>>) }

StructuredPatterns == GeneratedPatterns \cup CuratedPatterns

T_Foo(pattern) ==
    Entry(<<"F", "o", "o">>,
          Technology(Obj(<< <<<<"S", "e", "r", "v", "e", "r">>, Str(pattern)>> >>),
                     Absent, Absent, Absent, Absent, Absent, Absent, Absent))

\* The catalog of the scenario that writes the attribute after a bare semicolon.
BareSemicolonCatalog == << T_Foo(<<"c", "l", "o", "u", "d", "f", "l", "a", "r", "e", ";", "c", "o", "n", "f", "i", "d", "e", "n", "c", "e", ":", "9", "0">>) >>

\* The same scenario in the catalog format: a backslash before the semicolon.
EscapedSemicolonCatalog == << T_Foo(<<"c", "l", "o", "u", "d", "f", "l", "a", "r", "e", "\\", ";", "c", "o", "n", "f", "i", "d", "e", "n", "c", "e", ":", "9", "0">>) >>

Catalogs == CuratedCatalogs \cup {BareSemicolonCatalog, EscapedSemicolonCatalog}

GeneratedCatalogs ==
    {<< T_Foo(RenderPattern(g.re, g.attrs)) >> : g \in GeneratedPatterns}

\* The catalogs of SpecPatterns: one technology, with a generated pattern string
\* or one of the technologies of the pool.
PatternCatalogs == GeneratedCatalogs \cup {<<t>> : t \in TechPool}

UrlPool == { <<"h", "t", "t", "p", "s", ":", "/", "/", "a", ".", "i", "o", "/">>, <<"h", "t", "t", "p", ":", "/", "/", "b", ".", "c", "o", "m", "/">> }

Request(url, headers, resourceType) ==
    [url |-> url, headers |-> headers, resourceType |-> resourceType]

Response(url, status, headers) == [url |-> url, status |-> status, headers |-> headers]

Cookie(name, value) == [name |-> name, value |-> value]

Meta(name, property, content) == [name |-> name, property |-> property, content |-> content]

Page(requests, responses, cookies, content, window, metas, selectors) ==
    [requests |-> requests, responses |-> responses, cookies |-> cookies,
     content |-> content, window |-> window, metas |-> metas, selectors |-> selectors,
     finalUrl |-> IF responses = <<>> THEN <<>> ELSE responses[1].url,
     status |-> IF responses = <<>> THEN 0 ELSE responses[1].status,
     headers |-> IF responses = <<>> THEN <<>> ELSE responses[1].headers]

DocumentRequest == Request(<<"h", "t", "t", "p", "s", ":", "/", "/", "a", ".", "i", "o", "/">>, << <<<<"a", "c", "c", "e", "p", "t">>, <<"*", "/", "*">>>> >>, "document")

PG_cloudflare ==
    Page(<< DocumentRequest >>,
         << Response(<<"h", "t", "t", "p", "s", ":", "/", "/", "a", ".", "i", "o", "/">>, 200, << <<<<"s", "e", "r", "v", "e", "r">>, <<"c", "l", "o", "u", "d", "f", "l", "a", "r", "e">>>> >>) >>,
         <<>>, <<"<", "p", ">", "C", "l", "o", "u", "d", "f", "l", "a", "r", "e", "<", "/", "p", ">">>, <<>>,
         << Meta(Def(<<"g", "e", "n", "e", "r", "a", "t", "o", "r">>), Undef, Def(<<"A", "p", "a", "c", "h", "e">>)) >>,
         { <<"#", "p", "x", "-", "c", "a", "p", "t", "c", "h", "a">> })

PG_nginx ==
    Page(<< DocumentRequest >>,
         << Response(<<"h", "t", "t", "p", "s", ":", "/", "/", "a", ".", "i", "o", "/">>, 200, << <<<<"s", "e", "r", "v", "e", "r">>, <<"n", "g", "i", "n", "x", "/", "1", ".", "1", "8">>>> >>) >>,
         <<>>, <<"<", "h", "1", ">", "n", "g", "i", "n", "x", "<", "/", "h", "1", ">">>,
         << <<<<"g", "r", "e", "c", "a", "p", "t", "c", "h", "a">>, JObj(<< <<<<"v">>, JStr(<<"v", "3">>)>> >>)>> >>,
         << Meta(Def(<<"G", "e", "n", "e", "r", "a", "t", "o", "r">>), Undef, Def(<<"N", "g", "i", "n", "x">>)) >>, {})

PG_protected ==
    Page(<< DocumentRequest,
            Request(<<"h", "t", "t", "p", "s", ":", "/", "/", "g", ".", "c", "o", "/", "r", "e", "c", "a", "p", "t", "c", "h", "a", "/", "a", "p", "i", ".", "j", "s">>, <<>>, "script") >>,
         << Response(<<"h", "t", "t", "p", "s", ":", "/", "/", "a", ".", "i", "o", "/">>, 403,
                     << <<<<"s", "e", "r", "v", "e", "r">>, <<"D", "a", "t", "a", "D", "o", "m", "e">>>>, <<<<"x", "-", "d", "a", "t", "a", "d", "o", "m", "e", "-", "c", "i", "d">>, <<"7">>>> >>) >>,
         << Cookie(<<"d", "a", "t", "a", "d", "o", "m", "e">>, <<>>), Cookie(<<"_", "p", "x", "3">>, <<"x">>), Cookie(<<"_", "p", "x", "3">>, <<"k", "9">>) >>,
         <<"<", "p", ">", "b", "l", "o", "c", "k", "e", "d", "<", "/", "p", ">">>,
         << <<<<"g", "r", "e", "c", "a", "p", "t", "c", "h", "a">>, JObj(<< <<<<"v">>, JStr(<<"v", "3">>)>> >>)>>,
            <<<<"_", "p", "x", "A", "p", "p", "I", "d">>, JStr(<<"P", "X", "1", "2">>)>> >>,
         <<>>,
         {})

PG_plain ==
    Page(<< DocumentRequest,
            Request(<<"h", "t", "t", "p", "s", ":", "/", "/", "g", ".", "c", "o", "/", "r", "e", "c", "a", "p", "t", "c", "h", "a", "/", "a", "p", "i", ".", "j", "s">>, <<>>, "xhr") >>,
         << Response(<<"h", "t", "t", "p", ":", "/", "/", "b", ".", "c", "o", "m", "/">>, 200,
                     << <<<<"s", "e", "r", "v", "e", "r">>, <<>>>>, <<<<"x", "-", "d", "a", "t", "a", "d", "o", "m", "e", "-", "c", "i", "d">>, <<>>>> >>),
            Response(<<"h", "t", "t", "p", ":", "/", "/", "b", ".", "c", "o", "m", "/", "f">>, 404, << <<<<"s", "e", "r", "v", "e", "r">>, <<"z", "n", "g", "i", "n", "x", "/", "7">>>> >>) >>,
         << Cookie(<<"_", "p", "x">>, <<"1">>) >>,
         <<"<", "p", ">", "h", "i", "<", "/", "p", ">">>,
         << <<<<"g", "r", "e", "c", "a", "p", "t", "c", "h", "a">>, JBool(FALSE)>> >>,
         << Meta(Undef, Def(<<"o", "g", ":", "t", "i", "t", "l", "e">>), Def(<<"n", "g", "i", "n", "x">>)),
            Meta(Def(<<"g", "e", "n", "e", "r", "a", "t", "o", "r">>), Undef, Def(<<>>)) >>,
         { <<"#", "p", "x", "-", "c", "a", "p", "t", "c", "h", "a">>, <<"#", "p", "x", "-", "c", "a", "p", "t", "c", "h", "a", "\\", ";", "v", "e", "r", "s", "i", "o", "n", ":", "r", "o", "o", "t">> })

PG_mixed ==
    Page(<< Request(<<"h", "t", "t", "p", "s", ":", "/", "/", "a", ".", "i", "o", "/">>, << <<<<"s", "e", "r", "v", "e", "r">>, <<"n", "g", "i", "n", "x", "/", "2", ".", "0">>>> >>, "document"),
            Request(<<"h", "t", "t", "p", "s", ":", "/", "/", "a", ".", "i", "o", "/", "x", ".", "j", "s">>, <<>>, "script") >>,
         << Response(<<"h", "t", "t", "p", "s", ":", "/", "/", "a", ".", "i", "o", "/">>, 200, << <<<<"v", "i", "a">>, <<"c", "l", "o", "u", "d", "f", "l", "a", "r", "e">>>> >>),
            Response(<<"h", "t", "t", "p", "s", ":", "/", "/", "a", ".", "i", "o", "/", "x", ".", "j", "s">>, 200, << <<<<"s", "e", "r", "v", "e", "r">>, <<"z", "n", "g", "i", "n", "x", "/", "7", ".", "5", " ", "c", "l", "o", "u", "d", "f", "l", "a", "r", "e">>>> >>) >>,
         << Cookie(<<"_", "p", "x", "3">>, <<"n", "o", "n", "e">>) >>,
         <<"<", "h", "1", ">", "N", "G", "I", "N", "X", "<", "/", "h", "1", ">">>,
         << <<<<"_", "p", "x", "A", "p", "p", "I", "d">>, JStr(<<"p", "x">>)>> >>,
         << Meta(Def(<<"g", "e", "n", "e", "r", "a", "t", "o", "r">>), Undef, Def(<<"A", "p", "a", "c", "h", "e">>)) >>,
         {})

PagePool == {PG_cloudflare, PG_nginx, PG_protected, PG_plain, PG_mixed}

(***************************************************************************)
(* The state machine                                                       *)
(***************************************************************************)
\* No run has settled since the last call of run().
NoResult ==
    [status |-> "none", antiBot |-> <<>>, other |-> <<>>, metadata |-> NoMetadata,
     data |-> NoData, names |-> <<>>]

\* The run() calls the model follows step by step.
RunIds == {"first", "second"}

NoPage == Page(<<>>, <<>>, <<>>, <<>>, <<>>, <<>>, {})

\* A call of run() that has not been made: no browser, context or page, no
\* event seen, nothing collected.
NoRun ==
    [pc |-> "idle", url |-> <<>>, site |-> NoPage,
     browser |-> "none", context |-> "none", page |-> "none",
     requested |-> 0, responded |-> 0, reading |-> {},
     requestData |-> <<>>, responseData |-> <<>>,
     threw |-> FALSE, data |-> NoData, result |-> NoResult, overlapped |-> FALSE]

Init ==
    /\ technologies \in Catalogs
    /\ antiBotTechnologyNames = DefaultAntiBotTechnologyNames
    /\ data = NoData
    /\ result = NoResult
    /\ history = [prev |-> NoResult, assigned |-> FALSE]
    /\ runs = [r \in RunIds |-> NoRun]

\* A setter that assigns the list instead of appending to it.
SetAntiBotTechnologyNameReplacing(names) ==
    /\ antiBotTechnologyNames' = names
    /\ history' = [prev |-> NoResult, assigned |-> TRUE]
    /\ UNCHANGED <<technologies, data, result, runs>>

\* set antiBotTechnologyName(names): the names are appended to the list.
\* history: a run that settled before the assignment is no longer one the
\* next run is compared with.
SetAntiBotTechnologyName(names) ==
    /\ Len(antiBotTechnologyNames) + Len(names)
            <= Len(DefaultAntiBotTechnologyNames) + MaxAdded
    /\ antiBotTechnologyNames' = antiBotTechnologyNames \o names
    /\ history' = [prev |-> NoResult, assigned |-> TRUE]
    /\ UNCHANGED <<technologies, data, result, runs>>

\* run(url), up to the end of `await this.interceptRequests(...)`: the page is
\* loaded and its PageData collected.  history.prev keeps the result of the
\* run before this one when that run saw the identical PageData and the
\* prefix list has not been assigned since.
RunIntercept(url, page) ==
    /\ ~data.acquired
    /\ data' = interceptRequests(url, technologies, page)
    /\ history' = [prev |-> IF result.status # "none" /\ result.data = data'
                               /\ ~history.assigned
                            THEN result ELSE NoResult,
                   assigned |-> history.assigned]
    /\ result' = NoResult
    /\ UNCHANGED <<technologies, antiBotTechnologyNames, runs>>

\* A detection step that leaves the names it detected in the prefix list.
RunDetectLeaking ==
    /\ data.acquired
    /\ LET Settle(r) ==
               /\ result' = [status |-> r.status, antiBot |-> r.antiBot, other |-> r.other,
                             metadata |-> r.metadata, data |-> data,
                             names |-> antiBotTechnologyNames]
               /\ antiBotTechnologyNames' =
                     IF Len(antiBotTechnologyNames) + Len(r.other)
                            <= Len(DefaultAntiBotTechnologyNames) + MaxAdded
                     THEN antiBotTechnologyNames
                              \o [i \in 1..Len(r.other) |-> r.other[i].name]
                     ELSE antiBotTechnologyNames
       IN  Settle(detectTechnologies(technologies, data, antiBotTechnologyNames))
    /\ data' = NoData
    /\ history' = [history EXCEPT !.assigned = FALSE]
    /\ UNCHANGED <<technologies, runs>>

\* run(url), `return this.detectTechnologies(this.technologies, data)`: the
\* run settles with the result, or rejects where detectTechnologies throws.
RunDetect ==
    /\ data.acquired
    /\ LET Settle(r) ==
               result' = [status |-> r.status, antiBot |-> r.antiBot, other |-> r.other,
                          metadata |-> r.metadata, data |-> data,
                          names |-> antiBotTechnologyNames]
       IN  Settle(detectTechnologies(technologies, data, antiBotTechnologyNames))
    /\ data' = NoData
    /\ history' = [history EXCEPT !.assigned = FALSE]
    /\ UNCHANGED <<technologies, antiBotTechnologyNames, runs>>

Next ==
    \/ \E names \in SetterPool : SetAntiBotTechnologyName(names)
    \/ \E url \in UrlPool, page \in PagePool : RunIntercept(url, page)
    \/ RunDetect

Spec == Init /\ [][Next]_vars

\* The detector constructed over a one-technology catalog.
InitPatterns ==
    /\ technologies \in PatternCatalogs
    /\ antiBotTechnologyNames = DefaultAntiBotTechnologyNames
    /\ data = NoData
    /\ result = NoResult
    /\ history = [prev |-> NoResult, assigned |-> FALSE]
    /\ runs = [r \in RunIds |-> NoRun]

SpecPatterns == InitPatterns /\ [][Next]_vars

(***************************************************************************)
(* Properties                                                              *)
(***************************************************************************)
\* The last run settled: it returned a result or rejected.
Settled == result.status # "none"

Returned == result.status = "returned"

\* The Detections of the last run, over both buckets.
Detections == result.antiBot \o result.other

DetectionsOf(name) == SelectSeq(Detections, LAMBDA d : d.name = name)

Descriptors(t) == getTechnologyPatterns(technologies[t].tech)

\* The descriptor matches the snapshot of the last run.
Matches(p) == MatchDescriptor(p, result.data).matched

\* Evaluating the descriptor against the snapshot of the last run throws.
Throws(p) == MatchDescriptor(p, result.data).threw

ThrowsBeforeMatch(ps) ==
    \E j \in 1..Len(ps) : Throws(ps[j]) /\ \A i \in 1..(j - 1) : ~Matches(ps[i])

\* C1: a run produces at most one Detection per technology name over both
\* buckets, and once a descriptor of a technology has matched none of its
\* remaining descriptors is evaluated: a run rejects only on a descriptor
\* that throws with no descriptor of its technology matching before it.
C1_AtMostOneDetectionPerTechnology ==
    /\ Returned =>
          \A i, j \in 1..Len(Detections) :
              i # j => Detections[i].name # Detections[j].name
    /\ result.status = "threw" =>
          \E t \in 1..Len(technologies) : ThrowsBeforeMatch(Descriptors(t))

\* A run returned one Detection for a technology of which a descriptor matches
\* and a later descriptor would match or throw.
C1_Witness ==
    /\ Returned
    /\ \E t \in 1..Len(technologies) :
          /\ Len(DetectionsOf(technologies[t].name)) = 1
          /\ \E i, j \in 1..Len(Descriptors(t)) :
                /\ i < j
                /\ Matches(Descriptors(t)[i])
                /\ Throws(Descriptors(t)[j])

SignalTypes == {"headers", "cookies", "html", "scripts", "js", "dom", "meta", "url"}

\* The place of a signal type in the order the claim states.
TypeRank(type) ==
    CASE type = "headers" -> 1 [] type = "cookies" -> 2 [] type = "html" -> 3
      [] type = "scripts" -> 4 [] type = "js" -> 5 [] type = "dom" -> 6
      [] type = "meta" -> 7 [] type = "url" -> 8

FieldOf(tech, type) ==
    CASE type = "headers" -> tech.headers [] type = "cookies" -> tech.cookies
      [] type = "html" -> tech.html [] type = "scripts" -> tech.scripts
      [] type = "js" -> tech.js [] type = "dom" -> tech.dom
      [] type = "meta" -> tech.meta [] type = "url" -> tech.url

\* The pattern strings of a field in declaration order.
DeclaredPatterns(field) ==
    CASE field.kind = "none" -> <<>>
      [] field.kind = "str" -> <<field.str>>
      [] field.kind = "arr" -> field.arr
      [] field.kind = "obj" ->
            Flatten([k \in 1..Len(field.obj) |->
                IF field.obj[k][2].kind = "arr" THEN field.obj[k][2].arr
                ELSE <<field.obj[k][2].str>>])

PatternsOfType(ps, type) ==
    LET sel == SelectSeq(ps, LAMBDA p : p.type = type) IN
    [i \in 1..Len(sel) |-> sel[i].pattern]

\* C2: the descriptors of a technology are tried in the order headers, cookies,
\* html, scripts, js, dom, meta, url, in declaration order inside a field, and
\* the Detection's pattern is the first descriptor in that order that matches.
C2_FirstDescriptorInOrderWins ==
    Settled =>
      /\ \A t \in 1..Len(technologies) :
            LET ps == Descriptors(t) IN
            /\ \A i, j \in 1..Len(ps) :
                  i < j => TypeRank(ps[i].type) <= TypeRank(ps[j].type)
            /\ \A type \in SignalTypes :
                  PatternsOfType(ps, type)
                      = DeclaredPatterns(FieldOf(technologies[t].tech, type))
      /\ \A n \in 1..Len(Detections) :
            \E t \in 1..Len(technologies) :
                /\ technologies[t].name = Detections[n].name
                /\ \E k \in 1..Len(Descriptors(t)) :
                      /\ Descriptors(t)[k] = Detections[n].pattern
                      /\ Matches(Descriptors(t)[k])
                      /\ \A j \in 1..(k - 1) : ~Matches(Descriptors(t)[j])

\* A run returned a Detection whose descriptor precedes a descriptor of
\* another signal type that matches too.
C2_Witness ==
    /\ Returned
    /\ \E n \in 1..Len(Detections), t \in 1..Len(technologies) :
          /\ technologies[t].name = Detections[n].name
          /\ \E k, j \in 1..Len(Descriptors(t)) :
                /\ k < j
                /\ Descriptors(t)[k] = Detections[n].pattern
                /\ Descriptors(t)[j].type # Descriptors(t)[k].type
                /\ Matches(Descriptors(t)[j])

\* The name starts with the prefix, letter case ignored.
HasPrefixIgnoringCase(name, prefix) ==
    /\ Len(prefix) <= Len(name)
    /\ \A i \in 1..Len(prefix) : LowerChar(name[i]) = LowerChar(prefix[i])

Protective(name, prefixes) ==
    \E i \in 1..Len(prefixes) : HasPrefixIgnoringCase(name, prefixes[i])

\* C3: every Detection of a run is in exactly one bucket, the protective one
\* if and only if its name starts, letter case ignored, with a prefix of the
\* list the run classified with.
C3_BucketByNamePrefix ==
    Returned =>
      /\ \A i \in 1..Len(result.antiBot) :
            Protective(result.antiBot[i].name, result.names)
      /\ \A i \in 1..Len(result.other) :
            ~Protective(result.other[i].name, result.names)
      /\ \A i \in 1..Len(result.antiBot), j \in 1..Len(result.other) :
            result.antiBot[i].name # result.other[j].name
      /\ \A t \in 1..Len(technologies) :
            (\E k \in 1..Len(Descriptors(t)) : Matches(Descriptors(t)[k]))
                => Len(DetectionsOf(technologies[t].name)) = 1

\* A run filled both buckets, the protective one with a technology that only
\* an assigned prefix, written in capitals, makes protective.
C3_Witness ==
    /\ Returned
    /\ result.other # <<>>
    /\ \E i \in 1..Len(result.antiBot) :
          ~Protective(result.antiBot[i].name, DefaultAntiBotTechnologyNames)

\* The regex source of the descriptor's pattern string does not compile.
Malformed(p) == p.type # "dom" /\ parsePattern(p.pattern).threw

\* C4: a descriptor whose regex source does not compile is skipped: the run
\* returns, and every technology with a well-formed matching descriptor is
\* detected.
C4_MalformedPatternIsSkipped ==
    (/\ Settled
     /\ \E t \in 1..Len(technologies) :
           \E k \in 1..Len(Descriptors(t)) : Malformed(Descriptors(t)[k]))
    => /\ Returned
       /\ \A t \in 1..Len(technologies) :
             (\E k \in 1..Len(Descriptors(t)) :
                 ~Malformed(Descriptors(t)[k]) /\ Matches(Descriptors(t)[k]))
                 => Len(DetectionsOf(technologies[t].name)) = 1

\* The values of the header in the requests and responses of the snapshot.
HeaderValues(d, name) ==
    {LookupString(d.requestData[i].headers, name).s : i \in
        {i \in 1..Len(d.requestData) : LookupString(d.requestData[i].headers, name).def}}
    \cup
    {LookupString(d.responseData[i].headers, name).s : i \in
        {i \in 1..Len(d.responseData) : LookupString(d.responseData[i].headers, name).def}}

HasResponseHeader(d, name, value) ==
    \E i \in 1..Len(d.responseData) :
        LookupString(d.responseData[i].headers, name) = Def(value)

\* C5 as stated: with headers {Server: "cloudflare;confidence:90"} and a
\* response header server: cloudflare, the run yields a Detection for Foo with
\* confidence 90.
C5_BareSemicolonSeparatesAttributes ==
    (/\ Settled
     /\ technologies = BareSemicolonCatalog
     /\ HasResponseHeader(result.data, <<"s", "e", "r", "v", "e", "r">>, <<"c", "l", "o", "u", "d", "f", "l", "a", "r", "e">>))
    => /\ Returned
       /\ \E n \in 1..Len(Detections) :
             /\ Detections[n].name = <<"F", "o", "o">>
             /\ Detections[n].confidence = Num(90)

\* C5 amended: the attributes follow a backslash and a semicolon.  With
\* headers {Server: "cloudflare\;confidence:90"} and a response header
\* server: cloudflare the run yields one Detection, for Foo, with confidence
\* 90; with "cloudflare;confidence:90" the whole string is the regex source,
\* and no server header shorter than it yields a Detection.
C5_EscapedSemicolonSeparatesAttributes ==
    /\ (/\ Settled
        /\ technologies = EscapedSemicolonCatalog
        /\ HasResponseHeader(result.data, <<"s", "e", "r", "v", "e", "r">>, <<"c", "l", "o", "u", "d", "f", "l", "a", "r", "e">>))
       => /\ Returned
          /\ Len(Detections) = 1
          /\ Detections[1].name = <<"F", "o", "o">>
          /\ Detections[1].pattern.type = "headers"
          /\ Detections[1].confidence = Num(90)
          /\ ~Detections[1].version.def
    /\ (/\ Settled
        /\ technologies = BareSemicolonCatalog
        /\ \A v \in HeaderValues(result.data, <<"s", "e", "r", "v", "e", "r">>) :
              Len(v) < Len(<<"c", "l", "o", "u", "d", "f", "l", "a", "r", "e", ";", "c", "o", "n", "f", "i", "d", "e", "n", "c", "e", ":", "9", "0">>))
       => Returned /\ Detections = <<>>

\* The escaped scenario ran against a response header server: cloudflare.
C5_Witness ==
    /\ Returned
    /\ technologies = EscapedSemicolonCatalog
    /\ HasResponseHeader(result.data, <<"s", "e", "r", "v", "e", "r">>, <<"c", "l", "o", "u", "d", "f", "l", "a", "r", "e">>)
    /\ Len(Detections) = 1
    /\ Detections[1].confidence = Num(90)

\* The attributes of one key among the attributes of a pattern string.
AttrsOf(g, k) == SelectSeq(g.attrs, LAMBDA a : a.k = k)

\* C6: the Detection of a pattern string with a confidence:N attribute (the
\* last one, when it has several) has confidence N, and the Detection of a
\* pattern string without a confidence attribute has confidence 100.
C6_ConfidenceIsTheAttribute ==
    Returned =>
      \A n \in 1..Len(Detections) :
          /\ \E g \in StructuredPatterns :
                RenderPattern(g.re, g.attrs) = Detections[n].pattern.pattern
          /\ \A g \in StructuredPatterns :
                RenderPattern(g.re, g.attrs) = Detections[n].pattern.pattern =>
                    LET cs == AttrsOf(g, "confidence") IN
                    IF cs = <<>> THEN Detections[n].confidence = Num(100)
                    ELSE cs[Len(cs)].integer
                            => Detections[n].confidence = Num(cs[Len(cs)].n)

\* A run returned a Detection with the confidence of the last of two
\* confidence attributes of its pattern string.
C6_Witness ==
    /\ Returned
    /\ \E n \in 1..Len(Detections), g \in GeneratedPatterns :
          /\ RenderPattern(g.re, g.attrs) = Detections[n].pattern.pattern
          /\ Len(AttrsOf(g, "confidence")) = 2
          /\ AttrsOf(g, "confidence")[1].n = 90
          /\ AttrsOf(g, "confidence")[2].n = 5
          /\ Detections[n].confidence = Num(5)

\* C7: a technology none of whose descriptors matches the snapshot has no
\* Detection in either bucket.
C7_NoMatchNoDetection ==
    Returned =>
      \A t \in 1..Len(technologies) :
          (\A k \in 1..Len(Descriptors(t)) : ~Matches(Descriptors(t)[k]))
              => DetectionsOf(technologies[t].name) = <<>>

\* A run returned Detections, and none for a technology of the catalog whose
\* descriptors all fail to match.
C7_Witness ==
    /\ Returned
    /\ Detections # <<>>
    /\ \E t \in 1..Len(technologies) :
          /\ Descriptors(t) # <<>>
          /\ \A k \in 1..Len(Descriptors(t)) : ~Matches(Descriptors(t)[k])
          /\ DetectionsOf(technologies[t].name) = <<>>

CandidateValues(p, d) ==
    CASE p.type = "headers" -> HeaderValues(d, toLowerCase(p.key.s))
      [] p.type = "cookies" ->
            {d.cookies[i].value : i \in {i \in 1..Len(d.cookies) : d.cookies[i].name = p.key.s}}
      [] p.type = "html" -> {d.content}
      [] p.type = "scripts" ->
            {d.requestData[i].url : i \in
                {i \in 1..Len(d.requestData) : d.requestData[i].resourceType = "script"}}
      [] p.type = "js" ->
            {String(d.jsVariables[i][2]) : i \in
                {i \in 1..Len(d.jsVariables) : d.jsVariables[i][1] = p.key.s}}
      [] p.type = "meta" ->
            {d.metaTags[i][2] : i \in
                {i \in 1..Len(d.metaTags) : d.metaTags[i][1] = toLowerCase(p.key.s)}}
      [] p.type = "url" -> {d.url}
      [] OTHER -> {}

\* A version template with each group token replaced by the text of the
\* group in the match, empty when the group did not take part.
ExpectedVersion(tokens, groups) ==
    Flatten([i \in 1..Len(tokens) |->
        IF tokens[i].group = 0 THEN <<tokens[i].c>>
        ELSE IF tokens[i].group + 1 <= Len(groups) /\ groups[tokens[i].group + 1].def
        THEN groups[tokens[i].group + 1].s
        ELSE <<>>])

\* C9: when a pattern with a version template matches, the version is the
\* template with every \N replaced by the text of capture group N of the
\* match, empty for a group that did not take part; nginx/(\d+\.\d+)\;version:\1
\* against nginx/1.18 gives 1.18.
C9_VersionFromCaptureGroups ==
    Returned =>
      \A n \in 1..Len(Detections) :
          /\ Detections[n].pattern.type # "dom" =>
                \A g \in StructuredPatterns :
                    (/\ RenderPattern(g.re, g.attrs) = Detections[n].pattern.pattern
                     /\ AttrsOf(g, "version") # <<>>) =>
                        LET vs == AttrsOf(g, "version") IN
                        \E v \in CandidateValues(Detections[n].pattern, result.data) :
                            LET m == RegExpExec(RegExpCompile(g.re), v) IN
                            /\ m.matched
                            /\ Detections[n].version
                                  = Def(ExpectedVersion(vs[Len(vs)].tokens, m.groups))
          /\ (/\ Detections[n].pattern.pattern = <<"n", "g", "i", "n", "x", "/", "(", "\\", "d", "+", "\\", ".", "\\", "d", "+", ")", "\\", ";", "v", "e", "r", "s", "i", "o", "n", ":", "\\", "1">>
              /\ CandidateValues(Detections[n].pattern, result.data) = { <<"n", "g", "i", "n", "x", "/", "1", ".", "1", "8">> })
                => Detections[n].version = Def(<<"1", ".", "1", "8">>)

\* The pattern nginx/(\d+\.\d+)\;version:\1 matched the header nginx/1.18.
C9_Witness ==
    /\ Returned
    /\ \E n \in 1..Len(Detections) :
          /\ Detections[n].pattern.pattern = <<"n", "g", "i", "n", "x", "/", "(", "\\", "d", "+", "\\", ".", "\\", "d", "+", ")", "\\", ";", "v", "e", "r", "s", "i", "o", "n", ":", "\\", "1">>
          /\ CandidateValues(Detections[n].pattern, result.data) = { <<"n", "g", "i", "n", "x", "/", "1", ".", "1", "8">> }
          /\ Detections[n].version = Def(<<"1", ".", "1", "8">>)

\* The pattern string is, verbatim, among the DOM selectors of the snapshot.
InDomMatches(pattern) ==
    \E i \in 1..Len(result.data.domMatches) : result.data.domMatches[i] = pattern

\* The descriptor matches the snapshot, for a dom descriptor as the claim
\* states it.
MatchesAsClaimed(p) == IF p.type = "dom" THEN InDomMatches(p.pattern) ELSE Matches(p)

\* C10: a dom descriptor matches exactly when its pattern string is, verbatim,
\* one of the snapshot's DOM selectors, and its Detection has confidence 100
\* and no version, whatever attributes the pattern string carries.
C10_DomMatchIsMembership ==
    Returned =>
      /\ \A n \in 1..Len(Detections) :
            Detections[n].pattern.type = "dom" =>
                /\ InDomMatches(Detections[n].pattern.pattern)
                /\ Detections[n].confidence = Num(100)
                /\ ~Detections[n].version.def
      /\ \A t \in 1..Len(technologies) :
            \A k \in 1..Len(Descriptors(t)) :
                (/\ Descriptors(t)[k].type = "dom"
                 /\ InDomMatches(Descriptors(t)[k].pattern)
                 /\ \A j \in 1..(k - 1) : ~MatchesAsClaimed(Descriptors(t)[j]))
                => DetectionsOf(technologies[t].name)
                      = << [name |-> technologies[t].name,
                            pattern |-> Descriptors(t)[k],
                            version |-> Undef,
                            confidence |-> Num(100)] >>

\* A run returned the Detection of a dom descriptor whose pattern string
\* carries a version attribute.
C10_Witness ==
    /\ Returned
    /\ \E n \in 1..Len(Detections) :
          /\ Detections[n].pattern.type = "dom"
          /\ Detections[n].pattern.pattern = <<"#", "p", "x", "-", "c", "a", "p", "t", "c", "h", "a", "\\", ";", "v", "e", "r", "s", "i", "o", "n", ":", "r", "o", "o", "t">>

\* The pattern string, parsed and executed against one value, matches it.
PatternMatches(pattern, value) == matchPatterns(<<pattern>>, value).matched

\* C11: a url descriptor is matched against the URL the navigation ended on,
\* the URL of the result metadata, also when the navigation was redirected
\* away from the URL passed to run().
C11_UrlDescriptorSeesFinalUrl ==
    Returned =>
      \A n \in 1..Len(Detections) :
          Detections[n].pattern.type = "url" =>
              /\ result.metadata.url.def
              /\ PatternMatches(Detections[n].pattern.pattern, result.metadata.url.s)

\* C12: the metadata of the result is the metadata of the snapshot, unmodified,
\* whichever technologies were or were not detected.
C12_MetadataPassesThrough ==
    Returned =>
      /\ result.metadata = result.data.metadata
      /\ result.metadata.cookies = result.data.cookies

\* A run on a loaded page returned no Detection, and the metadata of the page.
C12_Witness ==
    /\ Returned
    /\ Detections = <<>>
    /\ result.metadata.url = Def(<<"h", "t", "t", "p", ":", "/", "/", "b", ".", "c", "o", "m", "/">>)
    /\ result.metadata.status_code = 200
    /\ result.metadata.cookies # <<>>

\* The URLs of the requests of resource type script, in request order.
ScriptUrls(d) ==
    LET scripts == SelectSeq(d.requestData, LAMBDA r : r.resourceType = "script") IN
    [i \in 1..Len(scripts) |-> scripts[i].url]

\* The Detection carries what the pattern string extracts from the first of
\* the values that it matches.
DecidedByFirstMatch(detection, values) ==
    \E i \in 1..Len(values) :
        /\ PatternMatches(detection.pattern.pattern, values[i])
        /\ \A j \in 1..(i - 1) : ~PatternMatches(detection.pattern.pattern, values[j])
        /\ detection.version = matchPatterns(<<detection.pattern.pattern>>, values[i]).version
        /\ Confidence(detection.confidence)
              = matchPatterns(<<detection.pattern.pattern>>, values[i]).confidence

\* C13: a scripts descriptor is evaluated only against the URLs of the requests
\* of resource type script, in request order; a request of another type never
\* makes it match, and a matching script request yields a Detection of
\* pattern.type scripts.
C13_ScriptsOnlyScriptRequests ==
    Returned =>
      /\ \A n \in 1..Len(Detections) :
            Detections[n].pattern.type = "scripts" =>
                DecidedByFirstMatch(Detections[n], ScriptUrls(result.data))
      /\ \A t \in 1..Len(technologies) :
            \A k \in 1..Len(Descriptors(t)) :
                (/\ Descriptors(t)[k].type = "scripts"
                 /\ \E i \in 1..Len(ScriptUrls(result.data)) :
                       PatternMatches(Descriptors(t)[k].pattern, ScriptUrls(result.data)[i])
                 /\ \A j \in 1..(k - 1) : ~Matches(Descriptors(t)[j]))
                => /\ Len(DetectionsOf(technologies[t].name)) = 1
                   /\ DetectionsOf(technologies[t].name)[1].pattern = Descriptors(t)[k]
      /\ (/\ technologies = << T_reCAPTCHA >>
          /\ \E i \in 1..Len(ScriptUrls(result.data)) :
                ScriptUrls(result.data)[i] = <<"h", "t", "t", "p", "s", ":", "/", "/", "g", ".", "c", "o", "/", "r", "e", "c", "a", "p", "t", "c", "h", "a", "/", "a", "p", "i", ".", "j", "s">>)
         => /\ Len(Detections) = 1
            /\ Detections[1].name = <<"r", "e", "C", "A", "P", "T", "C", "H", "A">>
            /\ Detections[1].pattern.type = "scripts"
            /\ Detections[1].confidence = Num(100)
            /\ ~Detections[1].version.def

\* The scripts pattern of reCAPTCHA detected it through a script request.
C13_Witness ==
    /\ Returned
    /\ \E i \in 1..Len(ScriptUrls(result.data)) :
          ScriptUrls(result.data)[i] = <<"h", "t", "t", "p", "s", ":", "/", "/", "g", ".", "c", "o", "/", "r", "e", "c", "a", "p", "t", "c", "h", "a", "/", "a", "p", "i", ".", "j", "s">>
    /\ \E n \in 1..Len(Detections) :
          /\ Detections[n].name = <<"r", "e", "C", "A", "P", "T", "C", "H", "A">>
          /\ Detections[n].pattern.type = "scripts"

\* The non-empty values of the header in the items, in order.
HeaderSeq(items, name) ==
    LET having == SelectSeq(items, LAMBDA item :
                     /\ LookupString(item.headers, name).def
                     /\ LookupString(item.headers, name).s # <<>>)
    IN  [i \in 1..Len(having) |-> LookupString(having[i].headers, name).s]

\* The values a headers descriptor is tried against: the requests' in request
\* order, then the responses' in response order.
HeaderCandidates(p, d) ==
    HeaderSeq(d.requestData, toLowerCase(p.key.s))
        \o HeaderSeq(d.responseData, toLowerCase(p.key.s))

\* C14: a headers descriptor tries the requests' headers of its name in
\* request order, then the responses' in response order, and the first that
\* matches decides: the version is the one of the first matching request
\* header, and a response header only counts when no request header matched.
C14_RequestHeadersBeforeResponseHeaders ==
    Returned =>
      \A n \in 1..Len(Detections) :
          Detections[n].pattern.type = "headers" =>
              DecidedByFirstMatch(Detections[n],
                                  HeaderCandidates(Detections[n].pattern, result.data))

\* A header Detection whose pattern matches a request header and a response
\* header that give different versions.
C14_Witness ==
    /\ Returned
    /\ \E n \in 1..Len(Detections) :
          /\ Detections[n].pattern.type = "headers"
          /\ Detections[n].version = Def(<<"2", ".", "0">>)
          /\ \E v \in HeaderValues(result.data, toLowerCase(Detections[n].pattern.key.s)) :
                matchPatterns(<<Detections[n].pattern.pattern>>, v).version = Def(<<"7", ".", "5">>)

\* The values the snapshot holds under the key of a keyed descriptor, the
\* empty string included.
PresentValues(p, d) ==
    CASE p.type = "headers" -> HeaderValues(d, toLowerCase(p.key.s))
      [] p.type = "cookies" ->
            {d.cookies[i].value : i \in {i \in 1..Len(d.cookies) : d.cookies[i].name = p.key.s}}
      [] p.type = "js" ->
            {String(d.jsVariables[i][2]) : i \in
                {i \in 1..Len(d.jsVariables) : d.jsVariables[i][1] = p.key.s}}
      [] p.type = "meta" ->
            {d.metaTags[i][2] : i \in
                {i \in 1..Len(d.metaTags) : d.metaTags[i][1] = toLowerCase(p.key.s)}}

\* C15: a descriptor of a keyed signal type (headers, cookies, js, meta) fails
\* to match silently when its key is absent from the snapshot, and is
\* evaluated against the value whenever the key is present, the empty string
\* included.
C15_KeyPresentIsEvaluated ==
    Returned =>
      \A t \in 1..Len(technologies) :
          \A k \in 1..Len(Descriptors(t)) :
              Descriptors(t)[k].type \in {"headers", "cookies", "js", "meta"} =>
                  (Matches(Descriptors(t)[k])
                      <=> \E v \in PresentValues(Descriptors(t)[k], result.data) :
                              PatternMatches(Descriptors(t)[k].pattern, v))

\* The names of the prefix list that follow the names of the step before.
Appended == SubSeq(antiBotTechnologyNames', Len(antiBotTechnologyNames) + 1,
                   Len(antiBotTechnologyNames'))

\* A step keeps every prefix in its place, adds only assigned names, and
\* keeps every technology of the catalog that is protective protective.
PrefixListGrows ==
    /\ Len(antiBotTechnologyNames') >= Len(antiBotTechnologyNames)
    /\ SubSeq(antiBotTechnologyNames', 1, Len(antiBotTechnologyNames))
          = antiBotTechnologyNames
    /\ Appended = <<>> \/ Appended \in SetterPool
    /\ \A t \in 1..Len(technologies) :
          Protective(technologies[t].name, antiBotTechnologyNames)
              => Protective(technologies[t].name, antiBotTechnologyNames')

\* C16: the prefix list holds every default prefix and every name ever
\* assigned, for assignment appends and never replaces or removes; a name
\* classified as protective stays protective at every later point.
C16_PrefixListOnlyGrows ==
    /\ [](/\ Len(antiBotTechnologyNames) >= Len(DefaultAntiBotTechnologyNames)
          /\ SubSeq(antiBotTechnologyNames, 1, Len(DefaultAntiBotTechnologyNames))
                = DefaultAntiBotTechnologyNames)
    /\ [][PrefixListGrows]_vars

\* Two assignments were made, and a technology of the catalog is protective by
\* an assigned prefix only.
C16_Witness ==
    /\ Len(antiBotTechnologyNames) = Len(DefaultAntiBotTechnologyNames) + 2
    /\ \E t \in 1..Len(technologies) :
          /\ Protective(technologies[t].name, antiBotTechnologyNames)
          /\ ~Protective(technologies[t].name, DefaultAntiBotTechnologyNames)

\* The buckets the run in flight resolves with do not change in this step.
BucketsOfRunInFlightKept ==
    (data.acquired /\ data' = data) =>
        /\ detectTechnologies(technologies', data', antiBotTechnologyNames').antiBot
              = detectTechnologies(technologies, data, antiBotTechnologyNames).antiBot
        /\ detectTechnologies(technologies', data', antiBotTechnologyNames').other
              = detectTechnologies(technologies, data, antiBotTechnologyNames).other

\* C17: a run classifies with the prefix list as it was before the run began:
\* prefixes appended after run() was called and before it resolves do not
\* change the buckets of its result.
C17_PrefixListFixedAtCall == [][BucketsOfRunInFlightKept]_vars

(***************************************************************************)
(* run() step by step: the awaits of interceptRequests, the events of the  *)
(* page, the finally block and the detection, for calls that may overlap   *)
(***************************************************************************)
\* The catalogs and pages of the step-by-step runs.
RunCatalogs == { << T_Nginx, T_reCAPTCHA >>, << T_Broken >> }

RunPagePool == {PG_nginx, PG_mixed}

RunUrls == { <<"h", "t", "t", "p", "s", ":", "/", "/", "a", ".", "i", "o", "/">> }

\* The call of run() is between its first step and its settlement.
InFlight(r) == runs[r].pc \notin {"idle", "resolved", "rejected"}

\* An await of the try block rejected: control passes to the finally block.
Fail(run) == [run EXCEPT !.threw = TRUE, !.pc = "close page"]

\* run(url) is called; site is the page the navigation will load.
Call(r, url, site) ==
    /\ runs[r].pc = "idle"
    /\ runs' = [o \in RunIds |->
                  IF o = r
                  THEN [NoRun EXCEPT !.pc = "launch", !.url = url, !.site = site,
                                     !.overlapped = \E p \in RunIds \ {r} : InFlight(p)]
                  ELSE IF InFlight(o) THEN [runs[o] EXCEPT !.overlapped = TRUE]
                  ELSE runs[o]]
    /\ UNCHANGED <<technologies, antiBotTechnologyNames, data, result, history>>

\* browser = await this.launchBrowser()
LaunchBrowser(r, ok) ==
    /\ runs[r].pc = "launch"
    /\ runs' = [runs EXCEPT ![r] =
                  IF ok THEN [@ EXCEPT !.browser = "open", !.pc = "context"] ELSE Fail(@)]
    /\ UNCHANGED <<technologies, antiBotTechnologyNames, data, result, history>>

\* context = await browser.newContext()
NewContext(r, ok) ==
    /\ runs[r].pc = "context"
    /\ runs' = [runs EXCEPT ![r] =
                  IF ok THEN [@ EXCEPT !.context = "open", !.pc = "page"] ELSE Fail(@)]
    /\ UNCHANGED <<technologies, antiBotTechnologyNames, data, result, history>>

\* page = await context.newPage(); the two listeners are registered and
\* page.goto is called.
NewPage(r, ok) ==
    /\ runs[r].pc = "page"
    /\ runs' = [runs EXCEPT ![r] =
                  IF ok THEN [@ EXCEPT !.page = "open", !.pc = "goto"] ELSE Fail(@)]
    /\ UNCHANGED <<technologies, antiBotTechnologyNames, data, result, history>>

\* A request listener that pushes to one log kept by the detector: every run
\* that is loading a page receives the request.
RequestEventShared(r) ==
    /\ runs[r].pc = "goto"
    /\ runs[r].requested < Len(runs[r].site.requests)
    /\ LET Push(request) ==
               runs' = [o \in RunIds |->
                          IF o = r
                          THEN [runs[o] EXCEPT !.requested = @ + 1,
                                               !.requestData = Append(@, request)]
                          ELSE IF runs[o].pc = "goto"
                          THEN [runs[o] EXCEPT !.requestData = Append(@, request)]
                          ELSE runs[o]]
       IN  Push(runs[r].site.requests[runs[r].requested + 1])
    /\ UNCHANGED <<technologies, antiBotTechnologyNames, data, result, history>>

\* page.on('request'): the next request of the page is pushed to requestData.
RequestEvent(r) ==
    /\ runs[r].pc = "goto"
    /\ runs[r].requested < Len(runs[r].site.requests)
    /\ runs' = [runs EXCEPT ![r] =
                  [@ EXCEPT !.requested = @ + 1,
                            !.requestData =
                                Append(@, runs[r].site.requests[runs[r].requested + 1])]]
    /\ UNCHANGED <<technologies, antiBotTechnologyNames, data, result, history>>

\* page.on('response'): the handler of the next response starts and awaits
\* response.body().
ResponseEvent(r) ==
    /\ runs[r].pc = "goto"
    /\ runs[r].responded < Len(runs[r].site.responses)
    /\ runs[r].requested >= 1
    /\ runs' = [runs EXCEPT ![r] =
                  [@ EXCEPT !.responded = @ + 1,
                            !.reading = @ \cup {runs[r].responded + 1}]]
    /\ UNCHANGED <<technologies, antiBotTechnologyNames, data, result, history>>

\* await response.body() of the k-th response settles (with the body, or with
\* an error that is ignored): the response is pushed to responseData.
BodyRead(r, k) ==
    /\ InFlight(r)
    /\ k \in runs[r].reading
    /\ runs' = [runs EXCEPT ![r] =
                  [@ EXCEPT !.reading = @ \ {k},
                            !.responseData = Append(@, runs[r].site.responses[k])]]
    /\ UNCHANGED <<technologies, antiBotTechnologyNames, data, result, history>>

\* await page.goto(url, { waitUntil: 'networkidle' }) resolves once the
\* network is idle, or rejects.
Goto(r, ok) ==
    /\ runs[r].pc = "goto"
    /\ ok => /\ runs[r].requested = Len(runs[r].site.requests)
             /\ runs[r].responded = Len(runs[r].site.responses)
    /\ runs' = [runs EXCEPT ![r] = IF ok THEN [@ EXCEPT !.pc = "collect"] ELSE Fail(@)]
    /\ UNCHANGED <<technologies, antiBotTechnologyNames, data, result, history>>

\* The awaits from context.cookies() to collectDOMElements and the return
\* statement: the PageData refers to the arrays requestData and responseData.
Collect(r, ok) ==
    /\ runs[r].pc = "collect"
    /\ runs' = [runs EXCEPT ![r] =
                  IF ok
                  THEN [@ EXCEPT !.data = interceptRequests(runs[r].url, technologies,
                                                            runs[r].site),
                                 !.pc = "close page"]
                  ELSE Fail(@)]
    /\ UNCHANGED <<technologies, antiBotTechnologyNames, data, result, history>>

\* finally: await page?.close(); a rejection leaves the finally block.
ClosePage(r, ok) ==
    /\ runs[r].pc = "close page"
    /\ runs[r].page = "open" \/ ok
    /\ runs' = [runs EXCEPT ![r] =
                  IF runs[r].page # "open" THEN [@ EXCEPT !.pc = "close context"]
                  ELSE IF ok THEN [@ EXCEPT !.page = "closed", !.pc = "close context"]
                  ELSE [@ EXCEPT !.threw = TRUE, !.pc = "rejected"]]
    /\ UNCHANGED <<technologies, antiBotTechnologyNames, data, result, history>>

\* finally: await context?.close()
CloseContext(r, ok) ==
    /\ runs[r].pc = "close context"
    /\ runs[r].context = "open" \/ ok
    /\ runs' = [runs EXCEPT ![r] =
                  IF runs[r].context # "open" THEN [@ EXCEPT !.pc = "close browser"]
                  ELSE IF ok THEN [@ EXCEPT !.context = "closed", !.pc = "close browser"]
                  ELSE [@ EXCEPT !.threw = TRUE, !.pc = "rejected"]]
    /\ UNCHANGED <<technologies, antiBotTechnologyNames, data, result, history>>

\* finally: await browser?.close(); then interceptRequests resolves with the
\* PageData or rejects with the error of the try block.
CloseBrowser(r, ok) ==
    /\ runs[r].pc = "close browser"
    /\ runs[r].browser = "open" \/ ok
    /\ runs' = [runs EXCEPT ![r] =
                  IF runs[r].browser = "open" /\ ~ok
                  THEN [@ EXCEPT !.threw = TRUE, !.pc = "rejected"]
                  ELSE [@ EXCEPT !.browser = IF @ = "open" THEN "closed" ELSE @,
                                 !.pc = IF runs[r].threw THEN "rejected" ELSE "detect"]]
    /\ UNCHANGED <<technologies, antiBotTechnologyNames, data, result, history>>

\* return this.detectTechnologies(this.technologies, data): the arrays of the
\* PageData hold what the listeners have pushed by now.
Detect(r) ==
    /\ runs[r].pc = "detect"
    /\ LET Settle(d, res) ==
               runs' = [runs EXCEPT ![r] =
                          [@ EXCEPT !.result = [status |-> res.status, antiBot |-> res.antiBot,
                                                other |-> res.other, metadata |-> res.metadata,
                                                data |-> d, names |-> antiBotTechnologyNames],
                                    !.pc = IF res.status = "threw" THEN "rejected"
                                           ELSE "resolved"]]
           Snapshot(d) == Settle(d, detectTechnologies(technologies, d, antiBotTechnologyNames))
       IN  Snapshot([runs[r].data EXCEPT !.requestData = runs[r].requestData,
                                         !.responseData = runs[r].responseData])
    /\ UNCHANGED <<technologies, antiBotTechnologyNames, data, result, history>>

InitRuns ==
    /\ technologies \in RunCatalogs
    /\ antiBotTechnologyNames = DefaultAntiBotTechnologyNames
    /\ data = NoData
    /\ result = NoResult
    /\ history = [prev |-> NoResult, assigned |-> FALSE]
    /\ runs = [r \in RunIds |-> NoRun]

NextRuns ==
    \E r \in RunIds :
        \/ \E url \in RunUrls, site \in RunPagePool : Call(r, url, site)
        \/ \E ok \in BOOLEAN :
              \/ LaunchBrowser(r, ok)
              \/ NewContext(r, ok)
              \/ NewPage(r, ok)
              \/ Goto(r, ok)
              \/ Collect(r, ok)
              \/ ClosePage(r, ok)
              \/ CloseContext(r, ok)
              \/ CloseBrowser(r, ok)
        \/ RequestEvent(r)
        \/ ResponseEvent(r)
        \/ \E k \in 1..2 : BodyRead(r, k)
        \/ Detect(r)

SpecRuns == InitRuns /\ [][NextRuns]_vars

(***************************************************************************)
(* Properties of the step-by-step runs                                     *)
(***************************************************************************)
\* The promise of run() has resolved or rejected.
SettledRun(r) == runs[r].pc \in {"resolved", "rejected"}

\* The page, browser context and browser of the run that are still open.
OpenHandles(r) ==
    {h \in {"page", "context", "browser"} :
        (CASE h = "page" -> runs[r].page
           [] h = "context" -> runs[r].context
           [] OTHER -> runs[r].browser) = "open"}

\* C18: whenever run() has settled, by resolving or by rejecting on any
\* failure (connecting, creating the context or the page, navigating,
\* collecting, closing), no page, context or browser the run opened is still
\* open, and a run in which a step failed has not resolved with a result.
C18_SettledRunHasClosedEverything ==
    \A r \in RunIds :
        SettledRun(r) =>
            /\ OpenHandles(r) = {}
            /\ runs[r].threw => runs[r].pc = "rejected"

\* The sequences without repetition over the elements of 1..n.
Arrangements(n) ==
    UNION { {s \in [1..m -> 1..n] : \A i, j \in 1..m : s[i] = s[j] => i = j} : m \in 0..n }

\* The response logs a load of the site can leave: the responses whose body
\* read has settled, in the order the reads settled.
ResponseLogs(site) ==
    { [i \in DOMAIN s |-> site.responses[s[i]]] : s \in Arrangements(Len(site.responses)) }

\* The results run(url) can resolve or reject with when it is the only call
\* in flight and loads the site.
AloneResults(url, site) ==
    { detectTechnologies(technologies,
                         [interceptRequests(url, technologies, site)
                             EXCEPT !.responseData = log],
                         antiBotTechnologyNames) : log \in ResponseLogs(site) }

\* The run's logs hold events of the run's own page only: the requests that
\* fired, in order, and the responses whose body read has settled, once each.
OwnEventsOnly(r) ==
    /\ runs[r].requestData = SubSeq(runs[r].site.requests, 1, runs[r].requested)
    /\ \E s \in Arrangements(Len(runs[r].site.responses)) :
          /\ {s[i] : i \in DOMAIN s} = (1..runs[r].responded) \ runs[r].reading
          /\ runs[r].responseData = [i \in DOMAIN s |-> runs[r].site.responses[s[i]]]

\* The buckets and metadata the run settled with.
ResultOf(r) ==
    [status |-> runs[r].result.status, antiBot |-> runs[r].result.antiBot,
     other |-> runs[r].result.other, metadata |-> runs[r].result.metadata]

\* C19: two run() calls on one detector that overlap are isolated: the logs
\* and the snapshot of each hold only the events of its own page, and the
\* result each settles with is one the run produces when executed alone on
\* its page, under every interleaving of the steps of the two runs.
C19_OverlappingRunsAreIsolated ==
    \A r \in RunIds :
        /\ OwnEventsOnly(r)
        /\ runs[r].pc \in {"resolved", "rejected"} /\ runs[r].result.status # "none" =>
              /\ runs[r].result.data.requestData = runs[r].site.requests
              /\ runs[r].result.data.responseData = runs[r].responseData
              /\ ResultOf(r) \in AloneResults(runs[r].url, runs[r].site)

\* Both runs overlapped, loaded different pages, and resolved with different
\* non-empty results.
C19_Witness ==
    /\ \A r \in RunIds : runs[r].overlapped /\ runs[r].pc = "resolved"
    /\ runs["first"].site # runs["second"].site
    /\ \A r \in RunIds : runs[r].result.antiBot \o runs[r].result.other # <<>>
    /\ ResultOf("first") # ResultOf("second")

\* detectTechnologies has been called for the run.
Matched(r) == runs[r].result.status # "none"

\* The requests and the responses whose events fired during the load of the
\* run's page, in the order the events fired.
FiredRequests(r) == SubSeq(runs[r].site.requests, 1, runs[r].requested)

FiredResponses(r) == SubSeq(runs[r].site.responses, 1, runs[r].responded)

\* C20: the snapshot is complete before matching begins: when
\* detectTechnologies starts, the response sequence of the snapshot holds
\* every response whose event fired during the load, in the order the events
\* fired, and nothing is appended to the logs of the snapshot afterwards,
\* under every interleaving of the body reads with the end of the navigation.
C20_SnapshotCompleteBeforeMatching ==
    \A r \in RunIds :
        Matched(r) =>
            /\ runs[r].result.data.requestData = FiredRequests(r)
            /\ runs[r].result.data.responseData = FiredResponses(r)
            /\ runs[r].requestData = runs[r].result.data.requestData
            /\ runs[r].responseData = runs[r].result.data.responseData

====
